---- MODULE Spec2Model ----
(***************************************************************************)
(* Helios-Tracker: the derived-metrics pipeline (daily indexer, strain,    *)
(* recovery, sleep score, VO2 max, sleep need, orchestrator), the          *)
(* heart-rate transform of the Health Connect loader, and the DataProvider *)
(* that loads the data.                                                    *)
(*                                                                         *)
(* Spec is the pipeline with the engines called directly; ReloadSpec loads *)
(* one export twice (reordered, or cut short at a day); ProviderSpec is    *)
(* the DataProvider with its asynchronous functions interleaved.           *)
(*                                                                         *)
(* Numbers.  The engines compute with IEEE doubles.  The scores are        *)
(* modelled as exact rationals <<n, d>> (d > 0, lowest terms); the running *)
(* average of the daily indexer, which is rounded at every record, is      *)
(* modelled as a double, bit for bit.  Math.round(x) is floor(x + 1/2).    *)
(* Dates "YYYY-MM-DD" are day numbers (the order of the zero-padded        *)
(* strings is the order of the days); the empty date string '' is day 0.   *)
(* Times "HH:mm" are the four digits <<H, H, m, m>>, compared              *)
(* lexicographically as the strings are.                                   *)
(***************************************************************************)
EXTENDS Integers, Sequences, FiniteSets, TLC

VARIABLES
    heartRateAuto,      \* raw heart-rate array handed over by the record source
    sleep,              \* raw sleep-night array
    heartRateByDay,     \* Map date -> records
    dailyHRSummary,     \* Map date -> DailyHRSummary
    computedStrain,     \* Map date -> ComputedDailyStrain
    computedRecovery,   \* Map date -> ComputedRecoveryScore
    computedSleepScore, \* Map date -> ComputedEnhancedSleepScore
    computedVO2Max,     \* ComputedVO2Max or Null
    rerun,              \* result of a second computeAllScores on the same objects
    phase,              \* "fetching" | "loaded" | "rerun"
    call,               \* the last direct engine call: [fn, args, res]
    prev,               \* the direct engine call before it
    earlier,            \* the arrays and results of the load before this one, or Null
    data,               \* DataProvider: the FitnessData held, as the loader that made it, or Null
    dataSource,         \* DataProvider: 'health-connect' | 'csv'
    hcStatus,           \* DataProvider: HealthConnectStatus
    loadingRef,         \* DataProvider: loadingRef.current
    platformOS,         \* Platform.OS
    pc                  \* DataProvider: the position of every asynchronous function

vars == <<heartRateAuto, sleep, heartRateByDay, dailyHRSummary, computedStrain,
          computedRecovery, computedSleepScore, computedVO2Max, rerun, phase,
          call, prev, earlier, data, dataSource, hcStatus, loadingRef,
          platformOS, pc>>

pipelineVars == <<heartRateAuto, sleep, heartRateByDay, dailyHRSummary,
                  computedStrain, computedRecovery, computedSleepScore,
                  computedVO2Max, rerun, phase>>

providerVars == <<data, dataSource, hcStatus, loadingRef, platformOS, pc>>

\* null / undefined; a present value x of an optional record is <<x>>
Null == <<>>

Some(x) == <<x>>

EmptyMap == [d \in {} |-> Null]

NoCall == [fn |-> "none", args |-> Null, res |-> Null]

-----------------------------------------------------------------------------
(* Exact rational arithmetic *)
(* A rational is <<n, d>> with d > 0, in lowest terms.  Every operation    *)
(* first checks that its operands have positive denominators; an operand   *)
(* is thereby evaluated before the operation is, so that a nested          *)
(* expression is evaluated from the inside out.                            *)

Abs(x) == IF x < 0 THEN -x ELSE x

RECURSIVE GCD(_, _)
GCD(a, b) == IF b = 0 THEN a ELSE GCD(b, a % b)

Rat(n, d) ==
    IF d < 0
    THEN LET g == GCD(Abs(n), -d) IN <<(-n) \div g, (-d) \div g>>
    ELSE LET g == GCD(Abs(n), d) IN <<n \div g, d \div g>>

R(n) == <<n, 1>>

LCM(a, b) == (a \div GCD(a, b)) * b

RAdd(x, y) ==
    CASE x[2] > 0 /\ y[2] > 0 ->
        LET l == LCM(x[2], y[2])
        IN  Rat(x[1] * (l \div x[2]) + y[1] * (l \div y[2]), l)

RNeg(x) == <<-x[1], x[2]>>

RSub(x, y) ==
    CASE x[2] > 0 /\ y[2] > 0 -> RAdd(x, <<-y[1], y[2]>>)

RMul(x, y) ==
    CASE x[2] > 0 /\ y[2] > 0 ->
        LET a == Rat(x[1], y[2])
            b == Rat(y[1], x[2])
        IN  <<a[1] * b[1], a[2] * b[2]>>

RDiv(x, y) ==
    CASE x[2] > 0 /\ y[2] > 0 -> RMul(x, Rat(y[2], y[1]))

RLe(x, y) ==
    CASE x[2] > 0 /\ y[2] > 0 -> x[1] * y[2] <= y[1] * x[2]

RLt(x, y) ==
    CASE x[2] > 0 /\ y[2] > 0 -> x[1] * y[2] < y[1] * x[2]

RMin(x, y) == IF RLe(x, y) THEN x ELSE y

RMax(x, y) == IF RLe(x, y) THEN y ELSE x

RAbs(x) == <<Abs(x[1]), x[2]>>

\* floor of a rational (\div rounds toward minus infinity)
RFloor(x) == x[1] \div x[2]

\* Math.round: the nearest integer, ties toward plus infinity
MathRound(x) == RFloor(RAdd(x, <<1, 2>>))

RIsInt(x) == x[2] = 1

-----------------------------------------------------------------------------
(* Strings *)

\* a < b for two digit strings of equal layout (JavaScript string comparison)
RECURSIVE StrLess(_, _)
StrLess(a, b) ==
    IF a = <<>> \/ b = <<>> THEN a = <<>> /\ b # <<>>
    ELSE IF Head(a) # Head(b) THEN Head(a) < Head(b)
    ELSE StrLess(Tail(a), Tail(b))

StrGe(a, b) == ~StrLess(a, b)

\* rec.time >= '02:00' && rec.time < '05:00'
InNightWindowInclusive(time) ==
    StrGe(time, <<0, 2, 0, 0>>) /\ ~StrLess(<<0, 5, 0, 0>>, time)

InNightWindow(time) == StrGe(time, <<0, 2, 0, 0>>) /\ StrLess(time, <<0, 5, 0, 0>>)

-----------------------------------------------------------------------------
(* Strain engine *)

MAX_HR == 190

NoDate == 0

ZoneStepDoubleCount(z, rec, maxHR) ==
    LET hr == rec.heartRate
        z1 == IF 100 * hr >= 85 * maxHR THEN [z EXCEPT !.peak = @ + 1] ELSE z
        z2 == IF 100 * hr >= 70 * maxHR THEN [z1 EXCEPT !.cardio = @ + 1] ELSE z1
        z3 == IF 100 * hr >= 50 * maxHR THEN [z2 EXCEPT !.fatBurn = @ + 1] ELSE z2
    IN  IF 100 * hr >= 50 * maxHR THEN z3 ELSE [z EXCEPT !.rest = @ + 1]

\* one iteration of the zone loop (pct = heartRate / maxHR against 0.85, 0.7, 0.5)
ZoneStep(z, rec, maxHR) ==
    LET hr == rec.heartRate
    IN  IF 100 * hr >= 85 * maxHR THEN [z EXCEPT !.peak = @ + 1]
        ELSE IF 100 * hr >= 70 * maxHR THEN [z EXCEPT !.cardio = @ + 1]
        ELSE IF 100 * hr >= 50 * maxHR THEN [z EXCEPT !.fatBurn = @ + 1]
        ELSE [z EXCEPT !.rest = @ + 1]

ZoneZero == [rest |-> 0, fatBurn |-> 0, cardio |-> 0, peak |-> 0]

ZoneAdd(a, b) ==
    [rest |-> a.rest + b.rest, fatBurn |-> a.fatBurn + b.fatBurn,
     cardio |-> a.cardio + b.cardio, peak |-> a.peak + b.peak]

\* for (const rec of records): every iteration adds its record's increments
\* to the four counters; the increments of records[lo .. hi] are summed by
\* halves, which keeps the evaluation shallow for a day of samples
RECURSIVE ZoneLoop(_, _, _, _)
ZoneLoop(records, lo, hi, maxHR) ==
    IF lo > hi THEN ZoneZero
    ELSE IF lo = hi THEN ZoneStep(ZoneZero, records[lo], maxHR)
    ELSE LET mid == (lo + hi) \div 2
         IN  ZoneAdd(ZoneLoop(records, lo, mid, maxHR),
                     ZoneLoop(records, mid + 1, hi, maxHR))

computeHRZones(records, maxHR) ==
    LET z == ZoneLoop(records, 1, Len(records), maxHR)
        total == IF Len(records) = 0 THEN 1 ELSE Len(records)
        zone(m) == [minutes |-> m, percent |-> Rat(m * 100, total)]
    IN  [rest |-> zone(z.rest), fatBurn |-> zone(z.fatBurn),
         cardio |-> zone(z.cardio), peak |-> zone(z.peak)]

\* StrainSteps[k] is the least rawTRIMP t with
\* Math.round(21 * (1 - Math.exp(-t / 100)) * 10) >= k, for k = 1 .. 210.
StrainSteps ==
    <<1, 1, 2, 2, 3, 3, 4, 4, 5, 5, 6, 6, 7, 7, 8, 8, 9, 9, 10, 10, 11, 11,
      12, 12, 13, 13, 14, 15, 15, 16, 16, 17, 17, 18, 18, 19, 20, 20, 21, 21,
      22, 23, 23, 24, 24, 25, 26, 26, 27, 27, 28, 29, 29, 30, 31, 31, 32, 32,
      33, 34, 34, 35, 36, 37, 37, 38, 39, 39, 40, 41, 41, 42, 43, 44, 44, 45,
      46, 47, 47, 48, 49, 50, 50, 51, 52, 53, 54, 54, 55, 56, 57, 58, 59, 59,
      60, 61, 62, 63, 64, 65, 66, 67, 67, 68, 69, 70, 71, 72, 73, 74, 75, 76,
      77, 78, 79, 80, 81, 82, 84, 85, 86, 87, 88, 89, 90, 92, 93, 94, 95, 96,
      98, 99, 100, 101, 103, 104, 105, 107, 108, 110, 111, 113, 114, 115, 117,
      119, 120, 122, 123, 125, 127, 128, 130, 132, 134, 135, 137, 139, 141,
      143, 145, 147, 149, 151, 153, 156, 158, 160, 163, 165, 168, 170, 173,
      175, 178, 181, 184, 187, 190, 193, 197, 200, 204, 207, 211, 215, 220,
      224, 228, 233, 238, 243, 249, 255, 261, 268, 275, 283, 291, 300, 310,
      321, 334, 348, 365, 385, 410, 444, 495, 605>>

StrainTenthsDecay(rawTRIMP) ==
    210 - Cardinality({k \in DOMAIN StrainSteps : StrainSteps[k] <= rawTRIMP})

\* Math.round(21 * (1 - Math.exp(-rawTRIMP / 100)) * 10), an integer 0 .. 210
StrainTenths(rawTRIMP) ==
    Cardinality({k \in DOMAIN StrainSteps : StrainSteps[k] <= rawTRIMP})

getStrainLevel(strain) ==
    IF RLt(strain, R(2)) THEN "rest"
    ELSE IF RLt(strain, R(7)) THEN "light"
    ELSE IF RLt(strain, R(14)) THEN "moderate"
    ELSE IF RLt(strain, R(18)) THEN "high"
    ELSE "all-out"

StrainDateEmpty(records) == NoDate

\* date: records.length > 0 ? records[0].date : ''
StrainDate(records) == IF Len(records) > 0 THEN records[1].date ELSE NoDate

computeDailyStrain(records, maxHR) ==
    LET zones == computeHRZones(records, maxHR)
        rawTRIMP == zones.fatBurn.minutes * 1 + zones.cardio.minutes * 2
                    + zones.peak.minutes * 3
        strain == Rat(StrainTenths(rawTRIMP), 10)
    IN  [date |-> StrainDate(records),
         rawTRIMP |-> rawTRIMP,
         strain |-> strain,
         zoneMinutes |-> [rest |-> zones.rest.minutes,
                          fatBurn |-> zones.fatBurn.minutes,
                          cardio |-> zones.cardio.minutes,
                          peak |-> zones.peak.minutes],
         level |-> getStrainLevel(strain)]

-----------------------------------------------------------------------------
(* Recovery engine *)

\* array.sort((a, b) => a - b) on a copy: every value goes to the position
\* given by the number of values that sort before it
SortRat(s) ==
    LET n == Len(s)
        values == { <<i, s[i]>> : i \in 1 .. n }
        v(i) == (CHOOSE e \in values : e[1] = i)[2]
        ranked == { <<Cardinality({ k \in 1 .. n :
                                      \/ RLt(v(k), v(i))
                                      \/ ~RLt(v(i), v(k)) /\ k < i }) + 1,
                      v(i)>> : i \in 1 .. n }
    IN  [p \in 1 .. n |-> (CHOOSE e \in ranked : e[1] = p)[2]]

\* median of a sorted array (recovery.ts), 0 for the empty array
medianSorted(sorted) ==
    LET n == Len(sorted)
        mid == n \div 2
    IN  IF n = 0 THEN R(0)
        ELSE IF n % 2 = 1 THEN sorted[mid + 1]
        ELSE RDiv(RAdd(sorted[mid], sorted[mid + 1]), R(2))

SelectNight(records) == SelectSeq(records, LAMBDA r : InNightWindow(r.time))

computeNightlyRestingHR(hrRecords) ==
    LET nightRecords == SelectNight(hrRecords)
        sorted == SortRat([i \in DOMAIN nightRecords |-> R(nightRecords[i].heartRate)])
    IN  IF Len(nightRecords) = 0 THEN Null ELSE medianSorted(sorted)

DefaultBaseline == 65

computeRHRBaselineNoDefault(nightlyRHRs) == medianSorted(SortRat(nightlyRHRs))

computeRHRBaseline(nightlyRHRs) ==
    IF Len(nightlyRHRs) = 0 THEN R(DefaultBaseline) ELSE medianSorted(SortRat(nightlyRHRs))

SleepTarget == 480

ActualMin(night) == night.deepSleepTime + night.shallowSleepTime + night.REMTime

RecoveryLevel(score) ==
    IF score >= 67 THEN "green" ELSE IF score >= 34 THEN "yellow" ELSE "red"

FinalScoreUnclamped(raw) == MathRound(raw)

\* const score = Math.max(0, Math.min(100, Math.round(raw)))
FinalScore(raw) ==
    LET r == MathRound(raw)
    IN  IF r < 0 THEN 0 ELSE IF r > 100 THEN 100 ELSE r

RawRecoveryEqualWeights(rhrScore, sleepScore, strainScore) ==
    RDiv(RAdd(RAdd(rhrScore, sleepScore), strainScore), R(3))

\* raw = rhrScore * 0.4 + sleepScore * 0.4 + strainScore * 0.2
RawRecovery(rhrScore, sleepScore, strainScore) ==
    RAdd(RAdd(RMul(rhrScore, <<2, 5>>), RMul(sleepScore, <<2, 5>>)),
         RMul(strainScore, <<1, 5>>))

RhrScoreNullAsZero(rhrBpm, rhrBaseline) ==
    LET deviation == RSub(IF rhrBpm = Null THEN R(0) ELSE rhrBpm, rhrBaseline)
    IN  RMax(R(0), RMin(R(100), RSub(R(100), RMul(deviation, R(5)))))

\* the RHR component: neutral 50 for rhrBpm === null, otherwise
\* Math.max(0, Math.min(100, 100 - deviation * 5))
RhrScore(rhrBpm, rhrBaseline) ==
    IF rhrBpm = Null THEN R(50)
    ELSE LET deviation == RSub(rhrBpm, rhrBaseline)
         IN  RMax(R(0), RMin(R(100), RSub(R(100), RMul(deviation, R(5)))))

\* rhrBpm: a rational or Null; sleepNight, priorStrain: Some(record) or Null
computeDailyRecovery(date, rhrBpm, rhrBaseline, sleepNight, priorStrain) ==
    LET rhrScore == RhrScore(rhrBpm, rhrBaseline)
        sleepScore ==
            IF sleepNight = Null THEN R(50)
            ELSE RMin(R(100), RMul(Rat(ActualMin(sleepNight[1]), SleepTarget), R(100)))
        strainScore ==
            IF priorStrain = Null THEN R(75)
            ELSE RMax(R(0), RSub(R(100), RMul(RDiv(priorStrain[1].strain, R(21)), R(100))))
        raw == RawRecovery(rhrScore, sleepScore, strainScore)
        score == FinalScore(raw)
    IN  [date |-> date,
         rhrBpm |-> IF rhrBpm = Null THEN R(0) ELSE rhrBpm,
         rhrBaseline |-> rhrBaseline,
         sleepComponent |-> sleepScore,
         strainComponent |-> strainScore,
         score |-> score,
         level |-> RecoveryLevel(score)]

-----------------------------------------------------------------------------
(* Sleep score engine *)

bedtimeHourNoShift(start) == RAdd(R(start.h), Rat(start.m, 60))

\* start is the local wall-clock reading [h, m] of the parsed datetime:
\* d.getHours() + d.getMinutes() / 60, shifted by 24 when <= 12
bedtimeHour(start) ==
    LET h == RAdd(R(start.h), Rat(start.m, 60))
    IN  IF RLe(h, R(12)) THEN RAdd(h, R(24)) ELSE h

\* median of an unsorted array (sleep-score.ts), 0 for the empty array
median(values) == medianSorted(SortRat(values))

scoreSufficiencyUncapped(night) == RMul(Rat(ActualMin(night), SleepTarget), R(100))

scoreSufficiency(night) ==
    RMin(RMul(Rat(ActualMin(night), SleepTarget), R(100)), R(100))

scoreEfficiency(night) ==
    LET totalInBed == ActualMin(night) + night.wakeTime
    IN  IF totalInBed <= 0 THEN R(0)
        ELSE RMul(Rat(totalInBed - night.wakeTime, totalInBed), R(100))

scoreStageQuality(night) ==
    LET actualMin == ActualMin(night)
        deepPct == Rat(night.deepSleepTime, actualMin)
        remPct == Rat(night.REMTime, actualMin)
        lightPct == Rat(night.shallowSleepTime, actualMin)
        deepDeviation == RDiv(RAbs(RSub(deepPct, <<1, 5>>)), <<1, 5>>)
        remDeviation == RDiv(RAbs(RSub(remPct, <<1, 4>>)), <<1, 4>>)
        lightDeviation == RDiv(RAbs(RSub(lightPct, <<11, 20>>)), <<11, 20>>)
    IN  IF actualMin <= 0 THEN R(0)
        ELSE RMax(R(0), RSub(R(100),
                 RMul(RAdd(RAdd(deepDeviation, remDeviation), lightDeviation),
                      <<3333, 100>>)))

ConsistencyFallbackBelow == 3

scoreConsistencyNoFallback(night, prevNights) ==
    LET prevBedHours == [i \in DOMAIN prevNights |-> bedtimeHour(prevNights[i].start)]
        medianBedHour == median(prevBedHours)
        bedtimeDeviation == RAbs(RSub(bedtimeHour(night.start), medianBedHour))
    IN  RMax(R(0), RSub(R(100), RMul(bedtimeDeviation, R(25))))

scoreConsistency(night, prevNights) ==
    IF Len(prevNights) < ConsistencyFallbackBelow THEN R(75)
    ELSE LET prevBedHours == [i \in DOMAIN prevNights |-> bedtimeHour(prevNights[i].start)]
             medianBedHour == median(prevBedHours)
             currentBedHour == bedtimeHour(night.start)
             bedtimeDeviation == RAbs(RSub(currentBedHour, medianBedHour))
         IN  RMax(R(0), RSub(R(100), RMul(bedtimeDeviation, R(25))))

SleepLevel(score) ==
    IF score >= 70 THEN "green" ELSE IF score >= 40 THEN "yellow" ELSE "red"

computeEnhancedSleepScore(night, prevNights) ==
    LET sufficiency == scoreSufficiency(night)
        efficiency == scoreEfficiency(night)
        stageQuality == scoreStageQuality(night)
        consistency == scoreConsistency(night, prevNights)
        score == MathRound(RAdd(RAdd(RMul(sufficiency, <<3, 10>>),
                                     RMul(efficiency, <<1, 4>>)),
                                RAdd(RMul(stageQuality, <<1, 4>>),
                                     RMul(consistency, <<1, 5>>))))
    IN  [date |-> night.date,
         sufficiency |-> sufficiency,
         efficiency |-> efficiency,
         stageQuality |-> stageQuality,
         consistency |-> consistency,
         score |-> score,
         level |-> SleepLevel(score)]

-----------------------------------------------------------------------------
(* VO2 max estimator *)

VO2Bucket(vo2max) ==
    IF RLt(vo2max, R(36)) THEN [classification |-> "Poor", percentile |-> 15]
    ELSE IF RLt(vo2max, R(42)) THEN [classification |-> "Fair", percentile |-> 30]
    ELSE IF RLt(vo2max, R(46)) THEN [classification |-> "Average", percentile |-> 50]
    ELSE IF RLt(vo2max, R(50)) THEN [classification |-> "Good", percentile |-> 70]
    ELSE IF RLt(vo2max, R(56)) THEN [classification |-> "Excellent", percentile |-> 85]
    ELSE [classification |-> "Superior", percentile |-> 95]

VO2RoundWhole(raw) == R(MathRound(raw))

\* Math.round(raw * 10) / 10
VO2Round(raw) == Rat(MathRound(RMul(raw, R(10))), 10)

\* maxHR, restingHR: rationals, restingHR > 0
estimateVO2Max(maxHR, restingHR) ==
    LET raw == RMul(<<153, 10>>, RDiv(maxHR, restingHR))
        vo2max == VO2Round(raw)
        b == VO2Bucket(vo2max)
    IN  [vo2max |-> vo2max, classification |-> b.classification,
         percentile |-> b.percentile]

-----------------------------------------------------------------------------
(* Sleep need engine *)

computeSleepNeedNoFloor(todayStrain, sleepDebtMin) ==
    LET baseMin == SleepTarget
        strainAdjustMin ==
            IF RLt(todayStrain, R(7)) THEN 0
            ELSE IF RLt(todayStrain, R(14)) THEN 15
            ELSE IF RLt(todayStrain, R(18)) THEN 30
            ELSE 45
        debtAdjustMin == RMin(RMul(sleepDebtMin, <<1, 4>>), R(30))
    IN  [recommendedMin |-> RAdd(R(baseMin + strainAdjustMin), debtAdjustMin),
         baseMin |-> baseMin,
         strainAdjustMin |-> strainAdjustMin,
         debtAdjustMin |-> debtAdjustMin]

\* todayStrain, sleepDebtMin: rationals
computeSleepNeed(todayStrain, sleepDebtMin) ==
    LET baseMin == SleepTarget
        strainAdjustMin ==
            IF RLt(todayStrain, R(7)) THEN 0
            ELSE IF RLt(todayStrain, R(14)) THEN 15
            ELSE IF RLt(todayStrain, R(18)) THEN 30
            ELSE 45
        debtAdjustMin == RMin(RMax(RMul(sleepDebtMin, <<1, 4>>), R(0)), R(30))
    IN  [recommendedMin |-> RAdd(R(baseMin + strainAdjustMin), debtAdjustMin),
         baseMin |-> baseMin,
         strainAdjustMin |-> strainAdjustMin,
         debtAdjustMin |-> debtAdjustMin]

DebtStepNet(totalDebt, actual, recommendedMin) == totalDebt + (recommendedMin - actual)

\* one iteration of the debt loop
DebtStep(totalDebt, actual, recommendedMin) ==
    LET deficit == recommendedMin - actual
    IN  IF deficit > 0 THEN totalDebt + deficit ELSE totalDebt

RECURSIVE DebtLoop(_, _, _, _)
DebtLoop(totalDebt, recentSleepMinutes, i, recommendedMin) ==
    IF i > Len(recentSleepMinutes) THEN totalDebt
    ELSE DebtLoop(DebtStep(totalDebt, recentSleepMinutes[i], recommendedMin),
                  recentSleepMinutes, i + 1, recommendedMin)

computeSleepDebt(recentSleepMinutes, recommendedMin) ==
    DebtLoop(0, recentSleepMinutes, 1, recommendedMin)

-----------------------------------------------------------------------------
(* IEEE double arithmetic of the running average                           *)
(*                                                                         *)
(* The running average of the daily indexer is rounded three times per     *)
(* record (product, sum, quotient), so it is modelled bit for bit.  A      *)
(* double x > 0 is the integer x * 2^60 written in six limbs of 15 bits,   *)
(* least significant first: limbs 1..4 hold the fraction, limbs 5..6 the   *)
(* integer part (below 2^30).  Every double from 2^-7 up to 2^30 is such   *)
(* an integer with at most 53 significant bits.                            *)

LimbBase == 32768

LimbBits == 15

FractionLimbs == 4

\* 2^k for k in 0 .. 14
Pow2(k) == <<1, 2, 4, 8, 16, 32, 64, 128, 256, 512, 1024, 2048, 4096, 8192, 16384>>[k + 1]

\* the double of a non-negative integer below 2^30
DblOfInt(n) == <<0, 0, 0, 0, n % LimbBase, n \div LimbBase>>

\* x + v * LimbBase^(i-1), exactly
RECURSIVE BigAddAt(_, _, _)
BigAddAt(x, i, v) ==
    IF v = 0 \/ i > Len(x) THEN x
    ELSE LET t == x[i] + v
         IN  BigAddAt([x EXCEPT ![i] = t % LimbBase], i + 1, t \div LimbBase)

\* x * c for an integer 0 <= c < 2^15, exactly
RECURSIVE BigMulFrom(_, _, _, _)
BigMulFrom(x, c, i, carry) ==
    IF i > Len(x) THEN <<>>
    ELSE LET t == x[i] * c + carry
         IN  <<t % LimbBase>> \o BigMulFrom(x, c, i + 1, t \div LimbBase)

BigMulSmall(x, c) == BigMulFrom(x, c, 1, 0)

\* floor(x / n) and the remainder, for an integer 0 < n < 2^15
RECURSIVE BigDivFrom(_, _, _, _)
BigDivFrom(x, n, i, rem) ==
    IF i = 0 THEN [q |-> <<>>, rem |-> rem]
    ELSE LET t == rem * LimbBase + x[i]
             rest == BigDivFrom(x, n, i - 1, t % n)
         IN  [q |-> Append(rest.q, t \div n), rem |-> rest.rem]

BigDivSmall(x, n) == BigDivFrom(x, n, Len(x), 0)

\* bit k of x, k = 0 for the least significant
Bit(x, k) == (x[(k \div LimbBits) + 1] \div Pow2(k % LimbBits)) % 2

\* position of the leading 1 bit (x > 0)
TopBit(x) ==
    LET j == CHOOSE i \in DOMAIN x : x[i] # 0 /\ \A h \in (i + 1) .. Len(x) : x[h] = 0
        k == CHOOSE b \in 0 .. (LimbBits - 1) :
                 Pow2(b) <= x[j] /\ (b = LimbBits - 1 \/ x[j] < Pow2(b + 1))
    IN  LimbBits * (j - 1) + k

\* some bit of x below position k is 1
AnyBitBelow(x, k) ==
    \E j \in DOMAIN x :
        IF LimbBits * j <= k THEN x[j] # 0
        ELSE IF LimbBits * (j - 1) >= k THEN FALSE
        ELSE x[j] % Pow2(k - LimbBits * (j - 1)) # 0

\* x with the bits below position cut cleared
ClearBelow(x, cut) ==
    [j \in DOMAIN x |->
        IF LimbBits * j <= cut THEN 0
        ELSE IF LimbBits * (j - 1) >= cut THEN x[j]
        ELSE (x[j] \div Pow2(cut - LimbBits * (j - 1))) * Pow2(cut - LimbBits * (j - 1))]

\* round to nearest, ties to even, at 53 significant bits; sticky tells that
\* the exact value has further non-zero bits below the last limb
RoundToDouble(x, sticky) ==
    LET cut == TopBit(x) - 52
        guard == Bit(x, cut - 1) = 1
        rest == sticky \/ AnyBitBelow(x, cut - 1)
        odd == Bit(x, cut) = 1
        up == guard /\ (rest \/ odd)
        kept == ClearBelow(x, cut)
    IN  IF cut <= 0 THEN x
        ELSE IF up THEN BigAddAt(kept, (cut \div LimbBits) + 1, Pow2(cut % LimbBits))
        ELSE kept

\* a * c, a + h and a / n as JavaScript computes them (c, h, n integers)
DblMul(a, c) == RoundToDouble(BigMulSmall(a, c), FALSE)

DblAddInt(a, h) == RoundToDouble(BigAddAt(a, FractionLimbs + 1, h), FALSE)

DblDiv(a, n) ==
    LET d == BigDivSmall(a, n)
    IN  RoundToDouble(d.q, d.rem # 0)

-----------------------------------------------------------------------------
(* Daily indexer *)

Infinity == 999999

Min2(a, b) == IF a <= b THEN a ELSE b

Max2(a, b) == IF a >= b THEN a ELSE b

\* the records of an array from position i on that carry a date, in the
\* order of the array
RecordsFrom(records, i, date) ==
    SelectSeq(SubSeq(records, i, Len(records)), LAMBDA rec : rec.date = date)

FirstSummaryAlwaysResting(rec) ==
    [date |-> rec.date, min |-> rec.heartRate, max |-> rec.heartRate,
     avg |-> DblOfInt(rec.heartRate), resting |-> rec.heartRate, count |-> 1]

\* first record of a date: resting is the record's heart rate inside the
\* night window, the Infinity sentinel outside it
FirstSummary(rec) ==
    [date |-> rec.date, min |-> rec.heartRate, max |-> rec.heartRate,
     avg |-> DblOfInt(rec.heartRate),
     resting |-> IF InNightWindow(rec.time) THEN rec.heartRate ELSE Infinity,
     count |-> 1]

NextSummaryAvgOfTwo(existing, rec) ==
    [date |-> existing.date,
     min |-> Min2(existing.min, rec.heartRate),
     max |-> Max2(existing.max, rec.heartRate),
     avg |-> DblDiv(DblAddInt(existing.avg, rec.heartRate), 2),
     resting |-> IF InNightWindow(rec.time)
                 THEN Min2(existing.resting, rec.heartRate)
                 ELSE existing.resting,
     count |-> existing.count + 1]

\* a further record of a date; avg is
\* (existing.avg * existing.count + rec.heartRate) / (existing.count + 1)
\* in double arithmetic
NextSummary(existing, rec) ==
    [date |-> existing.date,
     min |-> Min2(existing.min, rec.heartRate),
     max |-> Max2(existing.max, rec.heartRate),
     avg |-> DblDiv(DblAddInt(DblMul(existing.avg, existing.count), rec.heartRate),
                    existing.count + 1),
     resting |-> IF InNightWindow(rec.time)
                 THEN Min2(existing.resting, rec.heartRate)
                 ELSE existing.resting,
     count |-> existing.count + 1]

\* the entry of one date after the first n of its records: existing is the
\* entry the map held before them (Null: none), so the first record sets a
\* new entry and every further one updates it
RECURSIVE SummaryAfter(_, _, _)
SummaryAfter(existing, recs, n) ==
    IF n = 0 THEN existing[1]
    ELSE IF n = 1 /\ existing = Null THEN FirstSummary(recs[1])
    ELSE NextSummary(SummaryAfter(existing, recs, n - 1), recs[n])

\* for (const rec of records) map.set(rec.date, existing ? update : new),
\* from position i on: the records of a date update its entry in the order
\* of the array, the other keys are kept
SummaryLoop(map, records, i) ==
    LET written == { records[j].date : j \in i .. Len(records) }
    IN  [d \in DOMAIN map \cup written |->
            LET recs == RecordsFrom(records, i, d)
            IN  SummaryAfter(IF d \in DOMAIN map THEN Some(map[d]) ELSE Null,
                             recs, Len(recs))]

\* the closing pass: days without night readings fall back to the day's minimum
RestingFallback(summary) ==
    IF summary.resting = Infinity THEN [summary EXCEPT !.resting = summary.min]
    ELSE summary

buildDailyHRSummary(records) ==
    LET map == SummaryLoop(EmptyMap, records, 1)
    IN  [d \in DOMAIN map |-> RestingFallback(map[d])]

IndexLoopOverwrite(map, records, i) ==
    LET written == { records[j].date : j \in i .. Len(records) }
    IN  [d \in DOMAIN map \cup written |->
            LET recs == RecordsFrom(records, i, d)
            IN  IF recs = <<>> THEN map[d] ELSE <<recs[Len(recs)]>>]

\* for (const rec of records): push to the date's bucket, or set a new one,
\* from position i on: a bucket holds what it held followed by the records
\* of its date in the order of the array
IndexLoop(map, records, i) ==
    LET written == { records[j].date : j \in i .. Len(records) }
    IN  [d \in DOMAIN map \cup written |->
            (IF d \in DOMAIN map THEN map[d] ELSE <<>>) \o RecordsFrom(records, i, d)]

buildHeartRateByDay(records) == IndexLoop(EmptyMap, records, 1)

-----------------------------------------------------------------------------
(* Orchestrator *)

SleepWindow == 14

BaselineWindow == 14

SortByDateAsGiven(s) == s

\* [...sleep].sort((a, b) => a.date.localeCompare(b.date)): a stable sort;
\* every record goes to the position given by the number of records with an
\* earlier date, or with the same date and an earlier place in the array
SortByDate(s) ==
    LET n == Len(s)
        ranked == { <<Cardinality({ k \in 1 .. n :
                                      \/ s[k].date < s[i].date
                                      \/ s[k].date = s[i].date /\ k < i }) + 1,
                      s[i]>> : i \in 1 .. n }
    IN  [p \in 1 .. n |-> (CHOOSE e \in ranked : e[1] = p)[2]]

\* [...heartRateByDay.keys()].sort()
SortedKeys(S) ==
    [p \in 1 .. Cardinality(S) |->
        CHOOSE x \in S : Cardinality({ y \in S : y < x }) + 1 = p]

SleepScoreLoopAllEarlier(map, sortedSleep, i) ==
    LET positions == i .. Len(sortedSleep)
        written == { sortedSleep[j].date : j \in positions }
        last(d) == CHOOSE j \in positions :
                       /\ sortedSleep[j].date = d
                       /\ \A later \in positions : sortedSleep[later].date = d => later <= j
        entry(j) == computeEnhancedSleepScore(sortedSleep[j], SubSeq(sortedSleep, 1, j - 1))
    IN  [d \in DOMAIN map \cup written |->
            IF d \in written THEN entry(last(d)) ELSE map[d]]

\* for (let i = 0; i < sortedSleep.length; i++) computedSleepScore.set(
\* night.date, computeEnhancedSleepScore(night, prevNights)), from position i
\* on: a date holds the entry that was set last, the other keys are kept
SleepScoreLoop(map, sortedSleep, i) ==
    LET positions == i .. Len(sortedSleep)
        written == { sortedSleep[j].date : j \in positions }
        last(d) == CHOOSE j \in positions :
                       /\ sortedSleep[j].date = d
                       /\ \A later \in positions : sortedSleep[later].date = d => later <= j
        entry(j) == computeEnhancedSleepScore(
                        sortedSleep[j],
                        SubSeq(sortedSleep, Max2(1, j - SleepWindow), j - 1))
    IN  [d \in DOMAIN map \cup written |->
            IF d \in written THEN entry(last(d)) ELSE map[d]]

\* nightlyRHRMap: the dates whose records give a nightly resting HR
NightlyRHRMap(heartRateByDay_) ==
    LET has == {d \in DOMAIN heartRateByDay_ :
                    computeNightlyRestingHR(heartRateByDay_[d]) # Null}
    IN  [d \in has |-> computeNightlyRestingHR(heartRateByDay_[d])]

SleepByDateLoopKeepFirst(map, sleep_, i) ==
    LET positions == i .. Len(sleep_)
        written == { sleep_[j].date : j \in positions }
        first(d) == CHOOSE j \in positions :
                        /\ sleep_[j].date = d
                        /\ \A other \in positions : sleep_[other].date = d => other >= j
    IN  [d \in DOMAIN map \cup written |->
            IF d \in DOMAIN map THEN map[d] ELSE sleep_[first(d)]]

\* for (const s of sleep) sleepByDate.set(s.date, s), from position i on: a
\* date holds the record that was set last, the other keys are kept
SleepByDateLoop(map, sleep_, i) ==
    LET positions == i .. Len(sleep_)
        written == { sleep_[j].date : j \in positions }
        last(d) == CHOOSE j \in positions :
                       /\ sleep_[j].date = d
                       /\ \A later \in positions : sleep_[later].date = d => later <= j
    IN  [d \in DOMAIN map \cup written |->
            IF d \in written THEN sleep_[last(d)] ELSE map[d]]

BaselineRHRsInclusive(allDates, nightlyRHRMap, i) ==
    LET js == SelectSeq([k \in 1 .. (i + 1 - Max2(1, i - BaselineWindow)) |->
                            Max2(1, i - BaselineWindow) + k - 1],
                        LAMBDA j : allDates[j] \in DOMAIN nightlyRHRMap)
    IN  [k \in DOMAIN js |-> nightlyRHRMap[allDates[js[k]]]]

\* baselineRHRs for allDates[i] (1-based i): j from max(first, i - 14) below i
BaselineRHRs(allDates, nightlyRHRMap, i) ==
    LET js == SelectSeq([k \in 1 .. (i - Max2(1, i - BaselineWindow)) |->
                            Max2(1, i - BaselineWindow) + k - 1],
                        LAMBDA j : allDates[j] \in DOMAIN nightlyRHRMap)
    IN  [k \in DOMAIN js |-> nightlyRHRMap[allDates[js[k]]]]

RecoveryForNextStrain(allDates, i, nightlyRHRMap, sleepByDate, computedStrain_) ==
    LET date == allDates[i]
        rhr == IF date \in DOMAIN nightlyRHRMap THEN nightlyRHRMap[date] ELSE Null
        rhrBaseline == computeRHRBaseline(BaselineRHRs(allDates, nightlyRHRMap, i))
        sleepNight == IF date \in DOMAIN sleepByDate THEN Some(sleepByDate[date]) ELSE Null
        priorStrain == IF i < Len(allDates)
                       THEN Some(computedStrain_[allDates[i + 1]]) ELSE Null
    IN  computeDailyRecovery(date, rhr, rhrBaseline, sleepNight, priorStrain)

RecoveryFor(allDates, i, nightlyRHRMap, sleepByDate, computedStrain_) ==
    LET date == allDates[i]
        rhr == IF date \in DOMAIN nightlyRHRMap THEN nightlyRHRMap[date] ELSE Null
        rhrBaseline == computeRHRBaseline(BaselineRHRs(allDates, nightlyRHRMap, i))
        sleepNight == IF date \in DOMAIN sleepByDate THEN Some(sleepByDate[date]) ELSE Null
        priorDate == IF i > 1 THEN allDates[i - 1] ELSE NoDate
        \* priorDate ? computedStrain.get(priorDate) ?? null : null
        \* (null and the empty string are both falsy)
        priorStrain == IF i > 1 /\ priorDate # NoDate /\ priorDate \in DOMAIN computedStrain_
                       THEN Some(computedStrain_[priorDate]) ELSE Null
    IN  computeDailyRecovery(date, rhr, rhrBaseline, sleepNight, priorStrain)

\* max over the summaries, starting from 0
MaxOver(map, S) ==
    LET maxima == { map[d].max : d \in S } \cup {0}
    IN  CHOOSE m \in maxima : \A other \in maxima : other <= m

\* the resting values below Infinity, in ascending order
RestingSorted(map, S) ==
    LET values == { <<d, map[d].resting>> : d \in S }
        finite == { e \in values : e[2] < Infinity }
        ranked == { <<Cardinality({ other \in finite :
                                      \/ other[2] < e[2]
                                      \/ other[2] = e[2] /\ other[1] < e[1] }) + 1,
                      R(e[2])>> : e \in finite }
    IN  [p \in 1 .. Cardinality(finite) |-> (CHOOSE e \in ranked : e[1] = p)[2]]

VO2MaxOfDefaults(dailyHRSummary_) ==
    LET overallMaxHR == MaxOver(dailyHRSummary_, DOMAIN dailyHRSummary_)
        sortedRHRs == RestingSorted(dailyHRSummary_, DOMAIN dailyHRSummary_)
        n == Len(sortedRHRs)
        medianRHR == IF n % 2 = 1 THEN sortedRHRs[(n \div 2) + 1]
                     ELSE RDiv(RAdd(sortedRHRs[n \div 2], sortedRHRs[(n \div 2) + 1]), R(2))
    IN  IF n > 0 /\ overallMaxHR > 0
        THEN Some(estimateVO2Max(R(overallMaxHR), medianRHR))
        ELSE Some(estimateVO2Max(R(MAX_HR), R(DefaultBaseline)))

\* let computedVO2Max = null; set only when dailyHRSummary.size > 0,
\* restingHRs.length > 0 and overallMaxHR > 0
VO2MaxOf(dailyHRSummary_) ==
    LET overallMaxHR == MaxOver(dailyHRSummary_, DOMAIN dailyHRSummary_)
        sortedRHRs == RestingSorted(dailyHRSummary_, DOMAIN dailyHRSummary_)
        n == Len(sortedRHRs)
        medianRHR == IF n % 2 = 1 THEN sortedRHRs[(n \div 2) + 1]
                     ELSE RDiv(RAdd(sortedRHRs[n \div 2], sortedRHRs[(n \div 2) + 1]), R(2))
    IN  IF DOMAIN dailyHRSummary_ # {} /\ n > 0 /\ overallMaxHR > 0
        THEN Some(estimateVO2Max(R(overallMaxHR), medianRHR))
        ELSE Null

computeAllScores(input) ==
    LET strain == [d \in DOMAIN input.heartRateByDay |->
                      computeDailyStrain(input.heartRateByDay[d], MAX_HR)]
        sortedSleep == SortByDate(input.sleep)
        allDates == SortedKeys(DOMAIN input.heartRateByDay)
        nightlyRHRMap == NightlyRHRMap(input.heartRateByDay)
        sleepByDate == SleepByDateLoop(EmptyMap, input.sleep, 1)
    IN  [computedStrain |-> strain,
         computedRecovery |->
             [d \in DOMAIN input.heartRateByDay |->
                 RecoveryFor(allDates,
                             CHOOSE i \in DOMAIN allDates : allDates[i] = d,
                             nightlyRHRMap, sleepByDate, strain)],
         computedSleepScore |-> SleepScoreLoop(EmptyMap, sortedSleep, 1),
         computedVO2Max |-> VO2MaxOf(input.dailyHRSummary)]

InputAfterSortInPlace(input) == [input EXCEPT !.sleep = SortByDate(input.sleep)]

InputAfterFilterInPlace(input) ==
    [input EXCEPT !.heartRateByDay =
        [d \in DOMAIN input.heartRateByDay |-> SelectNight(input.heartRateByDay[d])]]

\* The objects passed to computeAllScores as it leaves them: every sort and
\* filter works on a copy ([...sleep].sort, [...keys()].sort, records.filter,
\* [...nightlyRHRs].sort), so nothing is written back.
InputAfterComputeAllScores(input) == input

-----------------------------------------------------------------------------
(* Health Connect loader: heart-rate transform *)

\* An instant is its number of minutes since 1970-01-01T00:00Z; tz is the
\* offset of the device's local time from UTC in minutes at that instant.
MinutesPerDay == 1440

\* toDateStr: d.toISOString().slice(0, 10), the date of the instant in UTC;
\* the day number of 1970-01-01 is 1
toDateStr(t) == t \div MinutesPerDay + 1

\* toTimeStr: getHours() and getMinutes() of the instant in local time,
\* each padded to two digits
toTimeStr(t, tz) ==
    LET local == (t + tz) % MinutesPerDay
        h == local \div 60
        m == local % 60
    IN  <<h \div 10, h % 10, m \div 10, m % 10>>

\* for (const sample of rec.samples): one HeartRateAuto per sample
SampleLoop(rec, tz) ==
    [i \in DOMAIN rec.samples[1] |->
        LET sample == rec.samples[1][i]
            time == IF sample.time # Null THEN sample.time[1] ELSE rec.startTime
        IN  [date |-> toDateStr(time),
             time |-> toTimeStr(time, tz),
             heartRate |-> MathRound(sample.beatsPerMinute)]]

\* for (const rec of hrRecords): records without samples are skipped
RECURSIVE TransformHeartRate(_, _)
TransformHeartRate(hrRecords, tz) ==
    IF hrRecords = <<>> THEN <<>>
    ELSE LET rec == Head(hrRecords)
         IN  (IF rec.samples # Null THEN SampleLoop(rec, tz) ELSE <<>>)
             \o TransformHeartRate(Tail(hrRecords), tz)

-----------------------------------------------------------------------------
(* Inputs *)

MaxHRRecords == 3

MaxRun == 202

MaxDebtNights == 3

MaxDays == 16

HR(date, time, heartRate) == [date |-> date, time |-> time, heartRate |-> heartRate]

\* heart-rate samples of three days: inside the night window (02:00, 04:59,
\* 03:00) and outside it (05:00, 01:59); 95 and 133 are the zone boundaries
\* 0.5 and 0.7 of MAX_HR, 162 is peak
HRUniverse ==
    { HR(1, <<0, 2, 0, 0>>, 60),  HR(1, <<0, 5, 0, 0>>, 162),
      HR(2, <<0, 4, 5, 9>>, 133), HR(2, <<0, 1, 5, 9>>, 95),
      HR(3, <<0, 3, 0, 0>>, 70) }

\* the calendar day of the d-th day with data: `skip` days without any
\* sample lie before the sixth
DayOf(d, skip) == IF d > 5 THEN d + skip ELSE d

\* which days carry a reading inside the night window: every day, two days
\* out of three, or the first day only
HasNight(d, gapKind) ==
    CASE gapKind = "all" -> TRUE
      [] gapKind = "thirds" -> d % 3 # 0
      [] gapKind = "first" -> d = 1

\* one day of a multi-week history: a reading at 03:00 (when the day has
\* one) and a reading at noon in the rest, fat-burn, cardio or peak zone
DayRecords(d, gapKind, shift, skip) ==
    (IF HasNight(d, gapKind)
     THEN <<HR(DayOf(d, skip), <<0, 3, 0, 0>>, 50 + ((d * 7 + shift) % 23))>>
     ELSE <<>>)
    \o <<HR(DayOf(d, skip), <<1, 2, 0, 0>>, <<60, 100, 140, 170>>[(d % 4) + 1])>>

RECURSIVE HistoryDays(_, _, _, _, _)
HistoryDays(d, n, gapKind, shift, skip) ==
    IF d > n THEN <<>>
    ELSE DayRecords(d, gapKind, shift, skip) \o HistoryDays(d + 1, n, gapKind, shift, skip)

Reverse(s) == [i \in 1 .. Len(s) |-> s[Len(s) + 1 - i]]

HistoryLengths == {BaselineWindow + 1, MaxDays}

\* one day of eight readings, two of them inside the night window; their
\* mean is 958 / 8 = 119.75
DayOfEightReadings ==
    << HR(1, <<0, 0, 3, 0>>, 93),  HR(1, <<0, 8, 0, 0>>, 161),
       HR(1, <<0, 2, 3, 0>>, 56),  HR(1, <<1, 2, 0, 0>>, 193),
       HR(1, <<1, 3, 0, 0>>, 192), HR(1, <<1, 8, 0, 0>>, 169),
       HR(1, <<0, 5, 0, 0>>, 42),  HR(1, <<0, 4, 5, 9>>, 52) >>

\* heart-rate arrays of more than 14 days, oldest first or newest first,
\* and the day of eight readings
HeartRateHistories ==
    { DayOfEightReadings } \cup
    { IF newestFirst
      THEN Reverse(HistoryDays(1, n, gapKind, shift, skip))
      ELSE HistoryDays(1, n, gapKind, shift, skip) :
        n \in HistoryLengths, gapKind \in {"all", "thirds", "first"},
        shift \in {0, 5}, skip \in {0, 3}, newestFirst \in BOOLEAN }

Night(date, deep, light, rem, wake, h, m) ==
    [date |-> date, deepSleepTime |-> deep, shallowSleepTime |-> light,
     REMTime |-> rem, wakeTime |-> wake, start |-> [h |-> h, m |-> m]]

\* sleep nights: 480 minutes in the ideal 20/55/25 split; a short night that
\* starts after midnight; a second record of day 2 with no sleep at all
SleepUniverse ==
    { Night(1, 96, 264, 120, 0, 23, 30),
      Night(2, 30, 200, 40, 30, 0, 30),
      Night(2, 0, 0, 0, 0, 22, 0) }

\* the sleep arrays the record source may deliver: one night, unsorted
\* nights, two records of one date in both orders, five nights
SleepArrays ==
    { <<Night(1, 96, 264, 120, 0, 23, 30)>>,
      <<Night(2, 30, 200, 40, 30, 0, 30), Night(1, 96, 264, 120, 0, 23, 30)>>,
      <<Night(2, 30, 200, 40, 30, 0, 30), Night(2, 0, 0, 0, 0, 22, 0)>>,
      <<Night(2, 0, 0, 0, 0, 22, 0), Night(2, 30, 200, 40, 30, 0, 30)>>,
      <<Night(3, 150, 330, 150, 20, 21, 0), Night(1, 96, 264, 120, 0, 23, 30),
        Night(2, 0, 0, 0, 0, 22, 0)>>,
      <<Night(1, 96, 264, 120, 0, 23, 30), Night(2, 30, 200, 40, 30, 0, 30),
        Night(3, 150, 330, 150, 20, 21, 0), Night(4, 480, 0, 0, 0, 12, 0),
        Night(5, 60, 300, 90, 15, 23, 0)>> }

\* further nights for direct engine calls: oversleep, wake only, early evening
MoreNights ==
    { Night(3, 150, 330, 150, 20, 21, 0),
      Night(3, 0, 0, 0, 45, 1, 15),
      Night(4, 480, 0, 0, 0, 12, 0) }

\* a record with negative stage minutes (malformed input)
BadNight == Night(5, -600, 0, 0, 0, 23, 0)

\* n copies of one sample
Run(heartRate, n) == [i \in 1 .. n |-> HR(1, <<1, 2, 0, 0>>, heartRate)]

RunLengths == {0, 1, MaxRun - 1, MaxRun}

StrainRecordLists ==
    { Run(162, a) \o Run(133, b) \o Run(95, c) \o Run(60, d) :
        a \in RunLengths, b \in {0, 1}, c \in {0, 1}, d \in {0, 1} }

MaxHRValues == {100, 190}

PriorStrains ==
    { Null } \cup { Some(computeDailyStrain(Run(162, a), MAX_HR)) : a \in {0, 20, MaxRun} }

RHRValues == { Null, R(40), R(60), R(65), <<131, 2>>, R(72), R(90) }

BaselineValues == { R(60), R(65), <<131, 2>> }

RecoveryNights == { Null } \cup { Some(n) : n \in SleepUniverse \cup MoreNights \cup {BadNight} }

PrevNightLists ==
    LET a == Night(1, 96, 264, 120, 0, 23, 30)
        b == Night(2, 30, 200, 40, 30, 0, 30)
        c == Night(3, 150, 330, 150, 20, 21, 0)
        d == Night(4, 480, 0, 0, 0, 12, 0)
    IN  { <<>>, <<a>>, <<a, b>>, <<a, b, c>>, <<b, b, b>>, <<a, b, c, d>>, <<c, c, a, a>> }

VO2MaxHRs == { R(150), R(170), R(181), R(190), R(200) }

VO2RestingHRs == { R(45), R(50), <<111, 2>>, R(60), R(65), R(72), R(80) }

SleepMinutes == {0, 420, 480, 540}

\* strain values on both sides of the steps 7, 14 and 18
NeedStrains ==
    { R(0), <<69, 10>>, R(7), <<139, 10>>, R(14), <<179, 10>>, R(18), R(21) }

\* debt values: negative, zero, below, at and above the cap (120 * 0.25 = 30)
NeedDebts == { R(-100), R(-1), R(0), R(1), R(60), R(119), R(120), R(121), R(1000) }

RECURSIVE SeqsUpTo(_, _)
SeqsUpTo(S, n) ==
    IF n = 0 THEN {<<>>}
    ELSE LET shorter == SeqsUpTo(S, n - 1)
         IN  shorter \cup {Append(q, x) : q \in {t \in shorter : Len(t) = n - 1}, x \in S}

MaxZoneRecords == 2

\* heart rates on both sides of 50 %, 70 % and 85 % of maxHR 100 and 190
ZoneRates == {49, 50, 69, 70, 84, 85, 94, 95, 132, 133, 161, 162}

ZoneRecordLists ==
    { [i \in DOMAIN q |-> HR(1, <<1, 2, 0, 0>>, q[i])] :
        q \in SeqsUpTo(ZoneRates, MaxZoneRecords) }

MaxNightRecords == 3

\* samples just before, at the start of, inside, at the end of and just
\* after the night window
NightUniverse ==
    { HR(1, <<0, 1, 5, 9>>, 40), HR(1, <<0, 2, 0, 0>>, 50),
      HR(1, <<0, 3, 0, 0>>, 61), HR(1, <<0, 4, 5, 9>>, 70),
      HR(1, <<0, 5, 0, 0>>, 90), HR(1, <<0, 3, 3, 0>>, 50) }

NightRecordLists == SeqsUpTo(NightUniverse, MaxNightRecords)

\* instants on the third day after the epoch in UTC: midnight, 00:30, noon
\* and 23:30
Instants ==
    { 2 * MinutesPerDay, 2 * MinutesPerDay + 30, 2 * MinutesPerDay + 720,
      2 * MinutesPerDay + 1410 }

\* local time five hours behind UTC, UTC, two hours and five and a half
\* hours ahead of UTC
TimezoneOffsets == {-300, 0, 120, 330}

HCSamples ==
    { [time |-> time, beatsPerMinute |-> bpm] :
        time \in {Null} \cup {Some(t) : t \in Instants},
        bpm \in {R(60), <<145, 2>>} }

\* Health Connect heart-rate records: without samples, with one sample, and
\* with a sample that has its own time followed by one that has none
HCHeartRateRecords ==
    { [startTime |-> startTime, samples |-> samples] :
        startTime \in Instants,
        samples \in {Null} \cup {Some(<<s>>) : s \in HCSamples}
                    \cup {Some(<<[time |-> Some(t), beatsPerMinute |-> R(72)],
                                 [time |-> Null, beatsPerMinute |-> R(72)]>>) :
                             t \in Instants} }

HCHeartRateArrays == {<<>>} \cup {<<rec>> : rec \in HCHeartRateRecords}

\* the k-th of a run of nights: the first goes to bed at 19:00, the others
\* at 23:30 and 00:30 in turn; the stage minutes take four profiles in turn
NightOfRun(k) ==
    LET stages == << <<96, 264, 120, 0>>, <<30, 200, 40, 30>>,
                     <<150, 330, 150, 20>>, <<60, 300, 90, 15>> >>[(k % 4) + 1]
    IN  Night(k, stages[1], stages[2], stages[3], stages[4],
              IF k = 1 THEN 19 ELSE IF k % 2 = 0 THEN 23 ELSE 0,
              IF k = 1 THEN 0 ELSE 30)

\* more than 14 nights, oldest first
LongNights == [k \in 1 .. MaxDays |-> NightOfRun(k)]

\* the odd positions of an array, then the even ones
OddsThenEvens(s) ==
    [i \in 1 .. Len(s) |->
        IF i <= (Len(s) + 1) \div 2 THEN s[2 * i - 1]
        ELSE s[2 * (i - (Len(s) + 1) \div 2)]]

\* the first element moved to the end
Rotate(s) == IF s = <<>> THEN s ELSE Append(Tail(s), Head(s))

DatasetHeartRates ==
    { <<>>,
      DayOfEightReadings,
      <<HR(3, <<0, 3, 0, 0>>, 70), HR(1, <<0, 5, 0, 0>>, 162),
        HR(2, <<0, 4, 5, 9>>, 133), HR(1, <<0, 2, 0, 0>>, 60)>>,
      HistoryDays(1, MaxDays, "all", 0, 0),
      OddsThenEvens(HistoryDays(1, MaxDays, "thirds", 5, 3)),
      Reverse(HistoryDays(1, MaxDays, "first", 0, 3)) }

\* sleep arrays with one record per date
DatasetSleeps ==
    { <<>>,
      <<Night(2, 30, 200, 40, 30, 0, 30), Night(1, 96, 264, 120, 0, 23, 30)>>,
      <<Night(3, 150, 330, 150, 20, 21, 0), Night(1, 96, 264, 120, 0, 23, 30),
        Night(2, 0, 0, 0, 0, 22, 0), Night(9, 60, 300, 90, 15, 1, 0)>>,
      LongNights,
      Reverse(LongNights),
      OddsThenEvens(LongNights) }

\* the orders in which a reload may deliver an array
Reorderings(s) == { Reverse(s), Rotate(s), OddsThenEvens(s) }

\* the records of an array dated up to a day, in the order of the array
UpTo(s, day) == SelectSeq(s, LAMBDA r : r.date <= day)

-----------------------------------------------------------------------------
(* The state machine *)

\* no asynchronous function of the DataProvider has been started
IdleProvider ==
    [load |-> "start", requestPermissions |-> "idle", listener |-> "idle",
     refreshData |-> "idle", updateProfile |-> "idle"]

\* the state after construction, on any platform
InitExceptPlatform ==
    /\ heartRateAuto = <<>>
    /\ sleep = <<>>
    /\ heartRateByDay = EmptyMap
    /\ dailyHRSummary = EmptyMap
    /\ computedStrain = EmptyMap
    /\ computedRecovery = EmptyMap
    /\ computedSleepScore = EmptyMap
    /\ computedVO2Max = Null
    /\ rerun = Null
    /\ phase = "fetching"
    /\ call = NoCall
    /\ prev = NoCall
    /\ earlier = Null
    /\ data = Null
    /\ dataSource = "csv"
    /\ hcStatus = "not_supported"
    /\ loadingRef = FALSE
    /\ pc = IdleProvider

Init == InitExceptPlatform /\ platformOS = "android"

\* the record source delivers one more heart-rate sample
ReceiveHeartRate ==
    /\ phase = "fetching" /\ call = NoCall
    /\ Len(heartRateAuto) < MaxHRRecords
    /\ \E rec \in HRUniverse : heartRateAuto' = Append(heartRateAuto, rec)
    /\ UNCHANGED <<sleep, heartRateByDay, dailyHRSummary, computedStrain,
                   computedRecovery, computedSleepScore, computedVO2Max, rerun,
                   phase, call, prev>>
    /\ UNCHANGED <<earlier, providerVars>>

\* the record source delivers a heart-rate array of several weeks
ReceiveHeartRateHistory ==
    /\ phase = "fetching" /\ call = NoCall
    /\ heartRateAuto = <<>>
    /\ \E records \in HeartRateHistories : heartRateAuto' = records
    /\ UNCHANGED <<sleep, heartRateByDay, dailyHRSummary, computedStrain,
                   computedRecovery, computedSleepScore, computedVO2Max, rerun,
                   phase, call, prev>>
    /\ UNCHANGED <<earlier, providerVars>>

\* the record source delivers the sleep array
ReceiveSleep ==
    /\ phase = "fetching" /\ call = NoCall
    /\ sleep = <<>>
    /\ \E nights \in SleepArrays : sleep' = nights
    /\ UNCHANGED <<heartRateAuto, heartRateByDay, dailyHRSummary, computedStrain,
                   computedRecovery, computedSleepScore, computedVO2Max, rerun,
                   phase, call, prev>>
    /\ UNCHANGED <<earlier, providerVars>>

\* loadAllData / loadFromHealthConnect: index the arrays, then score them
LoadAllData ==
    /\ phase = "fetching" /\ call = NoCall
    /\ LET input == [heartRateByDay |-> buildHeartRateByDay(heartRateAuto),
                     dailyHRSummary |-> buildDailyHRSummary(heartRateAuto),
                     sleep |-> sleep]
           scores == computeAllScores(input)
           after == InputAfterComputeAllScores(input)
       IN  /\ heartRateByDay' = after.heartRateByDay
           /\ dailyHRSummary' = after.dailyHRSummary
           /\ sleep' = after.sleep
           /\ computedStrain' = scores.computedStrain
           /\ computedRecovery' = scores.computedRecovery
           /\ computedSleepScore' = scores.computedSleepScore
           /\ computedVO2Max' = scores.computedVO2Max
    /\ phase' = "loaded"
    /\ UNCHANGED <<heartRateAuto, rerun, call, prev>>
    /\ UNCHANGED <<earlier, providerVars>>

\* computeAllScores once more, on the objects the first run was given
RerunComputeAllScores ==
    /\ phase = "loaded"
    /\ LET input == [heartRateByDay |-> heartRateByDay,
                     dailyHRSummary |-> dailyHRSummary,
                     sleep |-> sleep]
           after == InputAfterComputeAllScores(input)
       IN  /\ rerun' = Some(computeAllScores(input))
           /\ heartRateByDay' = after.heartRateByDay
           /\ dailyHRSummary' = after.dailyHRSummary
           /\ sleep' = after.sleep
    /\ phase' = "rerun"
    /\ UNCHANGED <<heartRateAuto, computedStrain, computedRecovery,
                   computedSleepScore, computedVO2Max, call, prev>>
    /\ UNCHANGED <<earlier, providerVars>>

\* the record source delivers both arrays of an export at once
ReceiveDataset ==
    /\ phase = "fetching" /\ call = NoCall /\ earlier = Null
    /\ heartRateAuto = <<>> /\ sleep = <<>>
    /\ \E records \in DatasetHeartRates, nights \in DatasetSleeps :
          /\ heartRateAuto' = records
          /\ sleep' = nights
          /\ records # <<>> \/ nights # <<>>
    /\ UNCHANGED <<heartRateByDay, dailyHRSummary, computedStrain,
                   computedRecovery, computedSleepScore, computedVO2Max, rerun,
                   phase, call, prev>>
    /\ UNCHANGED <<earlier, providerVars>>

\* the arrays and the results of the load that has just been made
Snapshot ==
    [heartRateAuto |-> heartRateAuto,
     sleep |-> sleep,
     dailyHRSummary |-> dailyHRSummary,
     computedStrain |-> computedStrain,
     computedRecovery |-> computedRecovery,
     computedSleepScore |-> computedSleepScore,
     computedVO2Max |-> computedVO2Max]

\* the data are to be loaded once more, and the record source delivers the
\* same records in another order
DeliverReordered ==
    /\ phase = "loaded" /\ earlier = Null
    /\ \E records \in Reorderings(heartRateAuto), nights \in Reorderings(sleep) :
          /\ heartRateAuto' = records
          /\ sleep' = nights
    /\ earlier' = Some([kind |-> "reordered", lastDay |-> NoDate] @@ Snapshot)
    /\ phase' = "fetching"
    /\ UNCHANGED <<heartRateByDay, dailyHRSummary, computedStrain,
                   computedRecovery, computedSleepScore, computedVO2Max, rerun,
                   call, prev, providerVars>>

\* the data are to be loaded once more from an export that ends with an
\* earlier day: the records after that day are missing, the others are the
\* same and in the same order
DeliverUpTo ==
    /\ phase = "loaded" /\ earlier = Null
    /\ \E day \in { heartRateAuto[i].date : i \in DOMAIN heartRateAuto }
                  \cup { sleep[i].date : i \in DOMAIN sleep } :
          /\ heartRateAuto' = UpTo(heartRateAuto, day)
          /\ sleep' = UpTo(sleep, day)
          /\ earlier' = Some([kind |-> "shortened", lastDay |-> day] @@ Snapshot)
    /\ phase' = "fetching"
    /\ UNCHANGED <<heartRateByDay, dailyHRSummary, computedStrain,
                   computedRecovery, computedSleepScore, computedVO2Max, rerun,
                   call, prev, providerVars>>

\* direct engine calls are made on a freshly started system
Idle == phase = "fetching" /\ heartRateAuto = <<>> /\ sleep = <<>>

\* computeDailyStrain on one day's records, and once more on another day's
CallComputeDailyStrain ==
    /\ Idle /\ prev = NoCall /\ call.fn \in {"none", "computeDailyStrain"}
    /\ \E records \in StrainRecordLists, maxHR \in MaxHRValues :
          call' = [fn |-> "computeDailyStrain",
                   args |-> [records |-> records, maxHR |-> maxHR],
                   res |-> computeDailyStrain(records, maxHR)]
    /\ prev' = call
    /\ UNCHANGED pipelineVars
    /\ UNCHANGED <<earlier, providerVars>>

CallComputeHRZones ==
    /\ Idle /\ call = NoCall
    /\ \E records \in ZoneRecordLists, maxHR \in MaxHRValues :
          call' = [fn |-> "computeHRZones",
                   args |-> [records |-> records, maxHR |-> maxHR],
                   res |-> computeHRZones(records, maxHR)]
    /\ UNCHANGED <<prev, pipelineVars>>
    /\ UNCHANGED <<earlier, providerVars>>

CallComputeNightlyRestingHR ==
    /\ Idle /\ call = NoCall
    /\ \E hrRecords \in NightRecordLists :
          call' = [fn |-> "computeNightlyRestingHR",
                   args |-> [hrRecords |-> hrRecords],
                   res |-> computeNightlyRestingHR(hrRecords)]
    /\ UNCHANGED <<prev, pipelineVars>>
    /\ UNCHANGED <<earlier, providerVars>>

\* the heart-rate transform of loadFromHealthConnect on a device whose
\* local time is tz minutes ahead of UTC
CallTransformHeartRate ==
    /\ Idle /\ call = NoCall
    /\ \E hrRecords \in HCHeartRateArrays, tz \in TimezoneOffsets :
          call' = [fn |-> "loadFromHealthConnect",
                   args |-> [hrRecords |-> hrRecords, tz |-> tz],
                   res |-> TransformHeartRate(hrRecords, tz)]
    /\ UNCHANGED <<prev, pipelineVars>>
    /\ UNCHANGED <<earlier, providerVars>>

CallComputeDailyRecovery ==
    /\ Idle /\ call = NoCall
    /\ \E rhrBpm \in RHRValues, rhrBaseline \in BaselineValues,
          sleepNight \in RecoveryNights, priorStrain \in PriorStrains :
          call' = [fn |-> "computeDailyRecovery",
                   args |-> [rhrBpm |-> rhrBpm, rhrBaseline |-> rhrBaseline,
                             sleepNight |-> sleepNight, priorStrain |-> priorStrain],
                   res |-> computeDailyRecovery(1, rhrBpm, rhrBaseline,
                                                sleepNight, priorStrain)]
    /\ UNCHANGED <<prev, pipelineVars>>
    /\ UNCHANGED <<earlier, providerVars>>

CallComputeEnhancedSleepScore ==
    /\ Idle /\ call = NoCall
    /\ \E night \in SleepUniverse \cup MoreNights, prevNights \in PrevNightLists :
          call' = [fn |-> "computeEnhancedSleepScore",
                   args |-> [night |-> night, prevNights |-> prevNights],
                   res |-> computeEnhancedSleepScore(night, prevNights)]
    /\ UNCHANGED <<prev, pipelineVars>>
    /\ UNCHANGED <<earlier, providerVars>>

CallEstimateVO2Max ==
    /\ Idle /\ call = NoCall
    /\ \E maxHR \in VO2MaxHRs, restingHR \in VO2RestingHRs :
          call' = [fn |-> "estimateVO2Max",
                   args |-> [maxHR |-> maxHR, restingHR |-> restingHR],
                   res |-> estimateVO2Max(maxHR, restingHR)]
    /\ UNCHANGED <<prev, pipelineVars>>
    /\ UNCHANGED <<earlier, providerVars>>

CallComputeSleepDebt ==
    /\ Idle /\ call = NoCall
    /\ \E recentSleepMinutes \in SeqsUpTo(SleepMinutes, MaxDebtNights),
          recommendedMin \in {SleepTarget, SleepTarget + 30} :
          call' = [fn |-> "computeSleepDebt",
                   args |-> [recentSleepMinutes |-> recentSleepMinutes,
                             recommendedMin |-> recommendedMin],
                   res |-> computeSleepDebt(recentSleepMinutes, recommendedMin)]
    /\ UNCHANGED <<prev, pipelineVars>>
    /\ UNCHANGED <<earlier, providerVars>>

CallComputeSleepNeed ==
    /\ Idle /\ call = NoCall
    /\ \E todayStrain \in NeedStrains, sleepDebtMin \in NeedDebts :
          call' = [fn |-> "computeSleepNeed",
                   args |-> [todayStrain |-> todayStrain, sleepDebtMin |-> sleepDebtMin],
                   res |-> computeSleepNeed(todayStrain, sleepDebtMin)]
    /\ UNCHANGED <<prev, pipelineVars>>
    /\ UNCHANGED <<earlier, providerVars>>

Next ==
    \/ ReceiveHeartRate
    \/ ReceiveHeartRateHistory
    \/ ReceiveSleep
    \/ LoadAllData
    \/ RerunComputeAllScores
    \/ CallComputeDailyStrain
    \/ CallComputeHRZones
    \/ CallComputeNightlyRestingHR
    \/ CallTransformHeartRate
    \/ CallComputeDailyRecovery
    \/ CallComputeEnhancedSleepScore
    \/ CallEstimateVO2Max
    \/ CallComputeSleepDebt
    \/ CallComputeSleepNeed

Spec == Init /\ [][Next]_vars

\* two loads of one export: as delivered, and reordered or cut short
ReloadNext ==
    \/ ReceiveDataset
    \/ LoadAllData
    \/ DeliverReordered
    \/ DeliverUpTo

ReloadSpec == Init /\ [][ReloadNext]_vars

-----------------------------------------------------------------------------
(* DataProvider: the asynchronous functions that load the data.  Every     *)
(* action is the code between two awaits; the state updates made in one    *)
(* such piece are committed together.                                      *)

ProviderInit == InitExceptPlatform /\ platformOS \in {"android", "ios"}

\* what loadFromHealthConnect returns: the user array filled or empty
HealthConnectData == { [loader |-> "health-connect", user |-> u] : u \in {"loaded", "none"} }

\* what loadAllData returns
CSVData == [loader |-> "csv", user |-> "loaded"]

\* setData(hcData); setDataSource('health-connect')
CommitHealthConnect(hcData) ==
    /\ data' = Some(hcData)
    /\ dataSource' = "health-connect"

\* setData(csvData); setDataSource('csv')
CommitCSV ==
    /\ data' = Some(CSVData)
    /\ dataSource' = "csv"

\* load(): up to the first await
LoadBegin ==
    /\ pc.load = "start" /\ ~loadingRef
    /\ loadingRef' = TRUE
    /\ pc' = [pc EXCEPT !.load = IF platformOS = "android"
                                  THEN "checkHealthConnectStatus"
                                  ELSE "loadAllData"]
    /\ UNCHANGED <<data, dataSource, hcStatus, platformOS>>
    /\ UNCHANGED <<pipelineVars, call, prev, earlier>>

\* load(): checkHealthConnectStatus() has answered
LoadStatus ==
    /\ pc.load = "checkHealthConnectStatus"
    /\ \E status \in {"unavailable", "ready", "permissions_needed"} :
          /\ hcStatus' = status
          /\ pc' = [pc EXCEPT !.load =
                       CASE status = "ready" -> "loadFromHealthConnect"
                         [] status = "permissions_needed" -> "done"
                         [] OTHER -> "loadAllData"]
          /\ loadingRef' = IF status = "permissions_needed" THEN FALSE ELSE loadingRef
    /\ UNCHANGED <<data, dataSource, platformOS>>
    /\ UNCHANGED <<pipelineVars, call, prev, earlier>>

\* load(): loadFromHealthConnect(180) has answered: with user data, without
\* user data, or with an exception (then the CSV files are loaded)
LoadHealthConnect ==
    /\ pc.load = "loadFromHealthConnect"
    /\ \/ /\ CommitHealthConnect([loader |-> "health-connect", user |-> "loaded"])
          /\ pc' = [pc EXCEPT !.load = "done"]
          /\ loadingRef' = FALSE
       \/ /\ pc' = [pc EXCEPT !.load = "loadLocalProfile"]
          /\ UNCHANGED <<data, dataSource, loadingRef>>
       \/ /\ pc' = [pc EXCEPT !.load = "loadAllData"]
          /\ UNCHANGED <<data, dataSource, loadingRef>>
    /\ UNCHANGED <<hcStatus, platformOS>>
    /\ UNCHANGED <<pipelineVars, call, prev, earlier>>

\* load(): loadLocalProfile() has answered with a profile or with null, or
\* has thrown
LoadLocalProfile ==
    /\ pc.load = "loadLocalProfile"
    /\ \/ /\ \E localProfile \in {"local", "none"} :
                 CommitHealthConnect([loader |-> "health-connect", user |-> localProfile])
          /\ pc' = [pc EXCEPT !.load = "done"]
          /\ loadingRef' = FALSE
       \/ /\ pc' = [pc EXCEPT !.load = "loadAllData"]
          /\ UNCHANGED <<data, dataSource, loadingRef>>
    /\ UNCHANGED <<hcStatus, platformOS>>
    /\ UNCHANGED <<pipelineVars, call, prev, earlier>>

\* load(): loadAllData() has answered
LoadCSV ==
    /\ pc.load = "loadAllData"
    /\ CommitCSV
    /\ pc' = [pc EXCEPT !.load = "done"]
    /\ loadingRef' = FALSE
    /\ UNCHANGED <<hcStatus, platformOS>>
    /\ UNCHANGED <<pipelineVars, call, prev, earlier>>

\* the permission screen (shown while permissions are needed and no data
\* are held) calls requestPermissions()
RequestPermissions ==
    /\ pc.requestPermissions = "idle"
    /\ hcStatus = "permissions_needed" /\ data = Null
    /\ pc' = [pc EXCEPT !.requestPermissions = "requestHealthConnectPermissions"]
    /\ UNCHANGED <<data, dataSource, hcStatus, loadingRef, platformOS>>
    /\ UNCHANGED <<pipelineVars, call, prev, earlier>>

\* requestPermissions(): the request has answered
RequestResult ==
    /\ pc.requestPermissions = "requestHealthConnectPermissions"
    /\ \E allGranted \in BOOLEAN :
          IF allGranted
          THEN /\ hcStatus' = "ready"
               /\ pc' = [pc EXCEPT !.requestPermissions = "loadFromHealthConnect"]
          ELSE /\ pc' = [pc EXCEPT !.requestPermissions = "idle"]
               /\ UNCHANGED hcStatus
    /\ UNCHANGED <<data, dataSource, loadingRef, platformOS>>
    /\ UNCHANGED <<pipelineVars, call, prev, earlier>>

\* requestPermissions(): loadFromHealthConnect(180) has answered, or has thrown
RequestHealthConnect ==
    /\ pc.requestPermissions = "loadFromHealthConnect"
    /\ \/ /\ \E hcData \in HealthConnectData : CommitHealthConnect(hcData)
          /\ pc' = [pc EXCEPT !.requestPermissions = "idle"]
       \/ /\ pc' = [pc EXCEPT !.requestPermissions = "loadAllData"]
          /\ UNCHANGED <<data, dataSource>>
    /\ UNCHANGED <<hcStatus, loadingRef, platformOS>>
    /\ UNCHANGED <<pipelineVars, call, prev, earlier>>

\* requestPermissions(): loadAllData() has answered
RequestCSV ==
    /\ pc.requestPermissions = "loadAllData"
    /\ CommitCSV
    /\ pc' = [pc EXCEPT !.requestPermissions = "idle"]
    /\ UNCHANGED <<hcStatus, loadingRef, platformOS>>
    /\ UNCHANGED <<pipelineVars, call, prev, earlier>>

\* the AppState listener (subscribed on Android while permissions are
\* needed) sees the app become active
ListenerActive ==
    /\ pc.listener = "idle"
    /\ platformOS = "android" /\ hcStatus = "permissions_needed"
    /\ pc' = [pc EXCEPT !.listener = "recheckPermissions"]
    /\ UNCHANGED <<data, dataSource, hcStatus, loadingRef, platformOS>>
    /\ UNCHANGED <<pipelineVars, call, prev, earlier>>

\* listener: recheckPermissions() has answered
ListenerResult ==
    /\ pc.listener = "recheckPermissions"
    /\ \E allGranted \in BOOLEAN :
          IF allGranted
          THEN /\ hcStatus' = "ready"
               /\ pc' = [pc EXCEPT !.listener = "loadFromHealthConnect"]
          ELSE /\ pc' = [pc EXCEPT !.listener = "idle"]
               /\ UNCHANGED hcStatus
    /\ UNCHANGED <<data, dataSource, loadingRef, platformOS>>
    /\ UNCHANGED <<pipelineVars, call, prev, earlier>>

\* listener: loadFromHealthConnect(180) has answered, or has thrown
ListenerHealthConnect ==
    /\ pc.listener = "loadFromHealthConnect"
    /\ \/ /\ \E hcData \in HealthConnectData : CommitHealthConnect(hcData)
          /\ pc' = [pc EXCEPT !.listener = "idle"]
       \/ /\ pc' = [pc EXCEPT !.listener = "loadAllData"]
          /\ UNCHANGED <<data, dataSource>>
    /\ UNCHANGED <<hcStatus, loadingRef, platformOS>>
    /\ UNCHANGED <<pipelineVars, call, prev, earlier>>

\* listener: loadAllData() has answered
ListenerCSV ==
    /\ pc.listener = "loadAllData"
    /\ CommitCSV
    /\ pc' = [pc EXCEPT !.listener = "idle"]
    /\ UNCHANGED <<hcStatus, loadingRef, platformOS>>
    /\ UNCHANGED <<pipelineVars, call, prev, earlier>>

\* refreshData(): up to the await
RefreshData ==
    /\ pc.refreshData = "idle"
    /\ platformOS = "android" /\ dataSource = "health-connect"
    /\ pc' = [pc EXCEPT !.refreshData = "loadFromHealthConnect"]
    /\ UNCHANGED <<data, dataSource, hcStatus, loadingRef, platformOS>>
    /\ UNCHANGED <<pipelineVars, call, prev, earlier>>

\* refreshData(): loadFromHealthConnect(180) has answered (setData(freshData)),
\* or has thrown
RefreshDone ==
    /\ pc.refreshData = "loadFromHealthConnect"
    /\ \/ \E freshData \in HealthConnectData : data' = Some(freshData)
       \/ UNCHANGED data
    /\ pc' = [pc EXCEPT !.refreshData = "idle"]
    /\ UNCHANGED <<dataSource, hcStatus, loadingRef, platformOS>>
    /\ UNCHANGED <<pipelineVars, call, prev, earlier>>

\* updateProfile(profile): up to the await
UpdateProfile ==
    /\ pc.updateProfile = "idle"
    /\ pc' = [pc EXCEPT !.updateProfile = "saveLocalProfile"]
    /\ UNCHANGED <<data, dataSource, hcStatus, loadingRef, platformOS>>
    /\ UNCHANGED <<pipelineVars, call, prev, earlier>>

\* updateProfile(profile): saveLocalProfile has answered
\* (setData(prev => prev ? {...prev, user: [profile]} : prev)), or has thrown
UpdateProfileDone ==
    /\ pc.updateProfile = "saveLocalProfile"
    /\ \/ data' = IF data = Null THEN data ELSE Some([data[1] EXCEPT !.user = "edited"])
       \/ UNCHANGED data
    /\ pc' = [pc EXCEPT !.updateProfile = "idle"]
    /\ UNCHANGED <<dataSource, hcStatus, loadingRef, platformOS>>
    /\ UNCHANGED <<pipelineVars, call, prev, earlier>>

ProviderNext ==
    \/ LoadBegin
    \/ LoadStatus
    \/ LoadHealthConnect
    \/ LoadLocalProfile
    \/ LoadCSV
    \/ RequestPermissions
    \/ RequestResult
    \/ RequestHealthConnect
    \/ RequestCSV
    \/ ListenerActive
    \/ ListenerResult
    \/ ListenerHealthConnect
    \/ ListenerCSV
    \/ RefreshData
    \/ RefreshDone
    \/ UpdateProfile
    \/ UpdateProfileDone

ProviderSpec == ProviderInit /\ [][ProviderNext]_vars

-----------------------------------------------------------------------------
(* Properties *)

ZoneTotal(z) == z.rest + z.fatBurn + z.cardio + z.peak

Loaded == phase \in {"loaded", "rerun"}

\* C1: computeDailyStrain counts every record in exactly one zone: the four
\* zone minutes add up to the number of records, for a direct call with any
\* maxHR and for every date of heartRateByDay after computeAllScores.
C1_ZoneMinutesSumToRecordCount ==
    /\ call.fn = "computeDailyStrain" =>
          ZoneTotal(call.res.zoneMinutes) = Len(call.args.records)
    /\ Loaded =>
          \A d \in DOMAIN heartRateByDay :
              /\ d \in DOMAIN computedStrain
              /\ ZoneTotal(computedStrain[d].zoneMinutes) = Len(heartRateByDay[d])

\* a day of more than MaxRun records with samples in all four zones
C1_Witness ==
    /\ call.fn = "computeDailyStrain"
    /\ Len(call.args.records) > MaxRun
    /\ \A zone \in {"rest", "fatBurn", "cardio", "peak"} : call.res.zoneMinutes[zone] > 0

\* C2 as stated: strain is non-decreasing in rawTRIMP and 0 <= strain < 21,
\* 21 itself never being returned.
C2_StrainBelow21 ==
    /\ call.fn = "computeDailyStrain" =>
          RLe(R(0), call.res.strain) /\ RLt(call.res.strain, R(21))
    /\ (call.fn = "computeDailyStrain" /\ prev.fn = "computeDailyStrain"
        /\ prev.res.rawTRIMP <= call.res.rawTRIMP) =>
          RLe(prev.res.strain, call.res.strain)

\* C2 amended: strain is non-decreasing in rawTRIMP and 0 <= strain <= 21;
\* rounding to one decimal returns 21 itself exactly when rawTRIMP >= 605.
C2_StrainMonotoneUpTo21 ==
    /\ call.fn = "computeDailyStrain" =>
          /\ RLe(R(0), call.res.strain) /\ RLe(call.res.strain, R(21))
          /\ call.res.strain = R(21) <=> call.res.rawTRIMP >= 605
    /\ (call.fn = "computeDailyStrain" /\ prev.fn = "computeDailyStrain"
        /\ prev.res.rawTRIMP <= call.res.rawTRIMP) =>
          RLe(prev.res.strain, call.res.strain)

\* two days, the second with the larger impulse, which saturates at 21
C2_Witness ==
    /\ call.fn = "computeDailyStrain" /\ prev.fn = "computeDailyStrain"
    /\ prev.res.rawTRIMP > 0
    /\ prev.res.rawTRIMP < call.res.rawTRIMP
    /\ RLt(prev.res.strain, call.res.strain)
    /\ call.res.strain = R(21)

\* C3: every recovery score is an integer from 0 to 100, for a direct call
\* with any resting HR, baseline, sleep record and prior strain, and for
\* every entry of computedRecovery.
C3_RecoveryScoreInRange ==
    /\ call.fn = "computeDailyRecovery" => call.res.score \in 0 .. 100
    /\ \A d \in DOMAIN computedRecovery : computedRecovery[d].score \in 0 .. 100

\* a record with negative stage minutes drives the weighted sum below zero
C3_Witness ==
    /\ call.fn = "computeDailyRecovery"
    /\ call.args.sleepNight # Null
    /\ ActualMin(call.args.sleepNight[1]) < 0
    /\ call.args.rhrBpm # Null /\ RLt(call.args.rhrBaseline, call.args.rhrBpm)
    /\ call.res.score = 0

WellFormedNight(night) ==
    /\ night.deepSleepTime >= 0 /\ night.shallowSleepTime >= 0
    /\ night.REMTime >= 0 /\ night.wakeTime >= 0

Clamp100(x) == IF x < 0 THEN 0 ELSE IF x > 100 THEN 100 ELSE x

\* the resting-HR component of a direct call, from its arguments
RhrComponentOf(args) ==
    IF args.rhrBpm = Null THEN R(50)
    ELSE RMax(R(0), RMin(R(100),
              RSub(R(100), RMul(R(5), RSub(args.rhrBpm, args.rhrBaseline)))))

WeightedRecovery(args, res) ==
    RAdd(RAdd(RMul(<<4, 10>>, RhrComponentOf(args)),
              RMul(<<4, 10>>, res.sleepComponent)),
         RMul(<<2, 10>>, res.strainComponent))

\* C4: the recovery score is round(0.4*rhr + 0.4*sleep + 0.2*strain component)
\* (clamped to 0..100, which changes nothing for stage minutes >= 0); with
\* restingHR = baseline, 480 minutes of sleep and no prior strain it is 95
\* and the level is green.
C4_RecoveryWeightedSum ==
    call.fn = "computeDailyRecovery" =>
        /\ call.res.score = Clamp100(MathRound(WeightedRecovery(call.args, call.res)))
        /\ (call.args.sleepNight = Null \/ WellFormedNight(call.args.sleepNight[1])) =>
              call.res.score = MathRound(WeightedRecovery(call.args, call.res))
        /\ (/\ call.args.rhrBpm = call.args.rhrBaseline
            /\ call.args.sleepNight # Null
            /\ ActualMin(call.args.sleepNight[1]) = 480
            /\ call.args.priorStrain = Null) =>
              call.res.score = 95 /\ call.res.level = "green"

C4_Witness ==
    /\ call.fn = "computeDailyRecovery"
    /\ call.args.rhrBpm = call.args.rhrBaseline
    /\ call.args.sleepNight # Null
    /\ ActualMin(call.args.sleepNight[1]) = 480
    /\ call.args.priorStrain = Null
    /\ call.res.score = 95

In0To100(x) == RLe(R(0), x) /\ RLe(x, R(100))

SleepScoreInRange(s) ==
    /\ In0To100(s.sufficiency) /\ In0To100(s.efficiency)
    /\ In0To100(s.stageQuality) /\ In0To100(s.consistency)
    /\ s.score \in 0 .. 100

\* C5: for a night with non-negative stage minutes and any previous nights,
\* sufficiency, efficiency, stageQuality and consistency are each within
\* [0,100], and so is the final score.
C5_SleepScoreInRange ==
    /\ (call.fn = "computeEnhancedSleepScore" /\ WellFormedNight(call.args.night)) =>
          SleepScoreInRange(call.res)
    /\ \A d \in DOMAIN computedSleepScore : SleepScoreInRange(computedSleepScore[d])

\* a night of more than 480 minutes scored against at least 3 previous nights
C5_Witness ==
    /\ call.fn = "computeEnhancedSleepScore"
    /\ ActualMin(call.args.night) > 480
    /\ call.args.night.wakeTime > 0
    /\ Len(call.args.prevNights) >= 3
    /\ call.res.sufficiency = R(100)
    /\ RLt(call.res.consistency, R(100))

ExampleNight(night) ==
    /\ night.deepSleepTime = 96 /\ night.shallowSleepTime = 264
    /\ night.REMTime = 120 /\ night.wakeTime = 0

\* C6: with fewer than 3 previous nights consistency is exactly 75;
\* sufficiency is min((deep+light+REM)/480*100, 100); the night 96/264/120/0
\* with no previous nights has consistency 75 and sufficiency 100.
C6_ConsistencyFallbackAndSufficiency ==
    call.fn = "computeEnhancedSleepScore" =>
        LET night == call.args.night
            total == night.deepSleepTime + night.shallowSleepTime + night.REMTime
        IN  /\ Len(call.args.prevNights) < 3 => call.res.consistency = R(75)
            /\ call.res.sufficiency =
                  IF total * 100 >= 100 * 480 THEN R(100) ELSE Rat(total * 100, 480)
            /\ (ExampleNight(night) /\ call.args.prevNights = <<>>) =>
                  call.res.consistency = R(75) /\ call.res.sufficiency = R(100)

C6_Witness ==
    /\ call.fn = "computeEnhancedSleepScore"
    /\ ExampleNight(call.args.night)
    /\ call.args.prevNights = <<>>
    /\ call.res.consistency = R(75)
    /\ call.res.sufficiency = R(100)

\* the classification table of the claim, on tenths of a unit
VO2Table(tenths) ==
    IF tenths < 360 THEN <<"Poor", 15>>
    ELSE IF tenths < 420 THEN <<"Fair", 30>>
    ELSE IF tenths < 460 THEN <<"Average", 50>>
    ELSE IF tenths < 500 THEN <<"Good", 70>>
    ELSE IF tenths < 560 THEN <<"Excellent", 85>>
    ELSE <<"Superior", 95>>

\* C7: estimateVO2Max returns 15.3*maxHR/restingHR rounded to one decimal
\* (t tenths with t - 1/2 <= 153*maxHR/restingHR < t + 1/2) and the bucket of
\* that value with its percentile; 190 and 50 give 58.1, "Superior".
C7_VO2MaxValueAndBucket ==
    call.fn = "estimateVO2Max" =>
        LET m == call.args.maxHR
            r == call.args.restingHR
            v == call.res.vo2max
            t == RFloor(RMul(v, R(10)))
        IN  /\ v = Rat(t, 10)
            /\ RLe(RMul(R(2 * t - 1), r), RMul(R(306), m))
            /\ RLt(RMul(R(306), m), RMul(R(2 * t + 1), r))
            /\ <<call.res.classification, call.res.percentile>> = VO2Table(t)
            /\ (m = R(190) /\ r = R(50)) =>
                  v = <<581, 10>> /\ call.res.classification = "Superior"

C7_Witness ==
    /\ call.fn = "estimateVO2Max"
    /\ call.args.maxHR = R(190) /\ call.args.restingHR = R(50)
    /\ call.res.vo2max = <<581, 10>>
    /\ call.res.classification = "Superior"

\* heart rates of the raw records of a date inside the 02:00-05:00 window
NightRates(d) ==
    { heartRateAuto[i].heartRate : i \in { j \in DOMAIN heartRateAuto :
          heartRateAuto[j].date = d /\ InNightWindow(heartRateAuto[j].time) } }

DayRates(d) ==
    { heartRateAuto[i].heartRate : i \in { j \in DOMAIN heartRateAuto :
          heartRateAuto[j].date = d } }

Least(S) == CHOOSE x \in S : \A y \in S : x <= y

\* C8: each date's summary.resting is the minimum heart rate among the
\* date's records with '02:00' <= time < '05:00', and the date's overall
\* minimum when no record lies in the window; it is never left at Infinity.
C8_RestingIsNightMinimumOrDayMinimum ==
    Loaded =>
        \A d \in DOMAIN dailyHRSummary :
            /\ dailyHRSummary[d].resting # Infinity
            /\ NightRates(d) # {} => dailyHRSummary[d].resting = Least(NightRates(d))
            /\ NightRates(d) = {} =>
                  /\ dailyHRSummary[d].resting = dailyHRSummary[d].min
                  /\ dailyHRSummary[d].resting = Least(DayRates(d))

\* one day whose night minimum lies above its overall minimum, and one day
\* with no night reading at all
C8_Witness ==
    /\ Loaded
    /\ \E d \in DOMAIN dailyHRSummary :
          NightRates(d) # {} /\ dailyHRSummary[d].resting > dailyHRSummary[d].min
    /\ \E d \in DOMAIN dailyHRSummary :
          NightRates(d) = {} /\ dailyHRSummary[d].resting = dailyHRSummary[d].min

RECURSIVE PositiveDeficits(_, _)
PositiveDeficits(minutes, recommendedMin) ==
    IF minutes = <<>> THEN 0
    ELSE (IF recommendedMin > Head(minutes) THEN recommendedMin - Head(minutes) ELSE 0)
         + PositiveDeficits(Tail(minutes), recommendedMin)

\* C10: computeSleepDebt returns the sum over the nights of
\* max(0, recommendedMin - actual): never negative, and 0 when every night
\* is at or above recommendedMin.
C10_SleepDebtIsSumOfPositiveDeficits ==
    call.fn = "computeSleepDebt" =>
        LET minutes == call.args.recentSleepMinutes
            recommendedMin == call.args.recommendedMin
        IN  /\ call.res = PositiveDeficits(minutes, recommendedMin)
            /\ call.res >= 0
            /\ (\A i \in DOMAIN minutes : minutes[i] >= recommendedMin) => call.res = 0

\* an oversleep night next to a short night: the surplus does not offset
C10_Witness ==
    /\ call.fn = "computeSleepDebt"
    /\ \E i \in DOMAIN call.args.recentSleepMinutes :
          call.args.recentSleepMinutes[i] > call.args.recommendedMin
    /\ \E i \in DOMAIN call.args.recentSleepMinutes :
          call.args.recentSleepMinutes[i] < call.args.recommendedMin
    /\ call.res > 0

SleepDates == { sleep[i].date : i \in DOMAIN sleep }

\* C11: after computeAllScores on the indexes built by the daily indexer,
\* computedStrain and computedRecovery have exactly the keys of
\* heartRateByDay, computedSleepScore has exactly the dates of the sleep
\* records, and every stored entity carries the date it is stored under.
C11_KeySetsAndDates ==
    Loaded =>
        /\ DOMAIN computedStrain = DOMAIN heartRateByDay
        /\ DOMAIN computedRecovery = DOMAIN heartRateByDay
        /\ DOMAIN computedSleepScore = SleepDates
        /\ \A d \in DOMAIN computedStrain : computedStrain[d].date = d
        /\ \A d \in DOMAIN computedRecovery : computedRecovery[d].date = d
        /\ \A d \in DOMAIN computedSleepScore : computedSleepScore[d].date = d

\* heart-rate dates and sleep dates that differ, two sleep records sharing
\* one date, and several records in one heart-rate bucket
C11_Witness ==
    /\ Loaded
    /\ Cardinality(DOMAIN computedStrain) >= 2
    /\ \E d \in DOMAIN heartRateByDay : Len(heartRateByDay[d]) >= 2
    /\ Cardinality(SleepDates) < Len(sleep)
    /\ SleepDates \ DOMAIN heartRateByDay # {}
    /\ DOMAIN heartRateByDay \ SleepDates # {}

\* the dates that have heart-rate records, from the raw array
HRDates == { heartRateAuto[i].date : i \in DOMAIN heartRateAuto }

EarlierDates(d) == { e \in HRDates : e < d }

\* d_max(0,i-14) .. d_(i-1): the up to 14 dates with records right before d
WindowDates(d) ==
    { e \in EarlierDates(d) : Cardinality({ f \in EarlierDates(d) : f > e }) < 14 }

\* d_(i-1)
PreviousDate(d) == CHOOSE e \in EarlierDates(d) : \A f \in EarlierDates(d) : f <= e

RecordsOf(d) == SelectSeq(heartRateAuto, LAMBDA r : r.date = d)

HasNightlyRHR(d) == NightRates(d) # {}

\* the nightly resting-HR values of a set of dates, date by date
NightlyValues(S) ==
    LET dates == SortedKeys({ e \in S : HasNightlyRHR(e) })
    IN  [k \in DOMAIN dates |-> computeNightlyRestingHR(RecordsOf(dates[k]))]

StrainComponentOf(strain) ==
    RMax(R(0), RSub(R(100), RMul(RDiv(strain, R(21)), R(100))))

\* C12: with the heart-rate dates in ascending order, the recovery entry of
\* d_i has as rhrBaseline the median of the nightly resting-HR values of
\* d_max(0,i-14) .. d_(i-1) only (65 when these have none), and as strain
\* component the one of the computed strain of d_(i-1); d_0 alone has no
\* prior strain (component 75).
C12_BaselineAndStrainFromPrecedingDates ==
    Loaded =>
        \A d \in DOMAIN computedRecovery :
            /\ computedRecovery[d].rhrBaseline =
                  IF NightlyValues(WindowDates(d)) = <<>> THEN R(65)
                  ELSE median(NightlyValues(WindowDates(d)))
            /\ EarlierDates(d) = {} => computedRecovery[d].strainComponent = R(75)
            /\ EarlierDates(d) # {} =>
                  /\ computedRecovery[d].strainComponent =
                        StrainComponentOf(computedStrain[PreviousDate(d)].strain)
                  /\ computedRecovery[d].strainComponent # R(75)

\* sixteen dates delivered newest first: the window of the last date leaves
\* out the first, and taking in the date itself would give another median
C12_Witness ==
    /\ Loaded
    /\ Cardinality(HRDates) >= 16
    /\ heartRateAuto[1].date > heartRateAuto[Len(heartRateAuto)].date
    /\ \E d \in DOMAIN computedRecovery :
          /\ Cardinality(WindowDates(d)) = 14
          /\ EarlierDates(d) \ WindowDates(d) # {}
          /\ HasNightlyRHR(d)
          /\ computedRecovery[d].rhrBaseline # R(65)
          /\ computedRecovery[d].rhrBaseline #
                median(NightlyValues(WindowDates(d) \cup {d}))
          /\ computedRecovery[d].rhrBaseline #
                median(NightlyValues(EarlierDates(d)))

\* C13: an empty record array gives empty indexes, and computeAllScores on
\* empty heartRateByDay, empty dailyHRSummary and empty sleep returns three
\* empty maps and computedVO2Max = null (on the first run and on a rerun).
C13_EmptyInputGivesEmptyResult ==
    /\ (Loaded /\ heartRateAuto = <<>>) =>
          /\ heartRateByDay = EmptyMap /\ DOMAIN heartRateByDay = {}
          /\ dailyHRSummary = EmptyMap /\ DOMAIN dailyHRSummary = {}
    /\ (Loaded /\ heartRateAuto = <<>> /\ sleep = <<>>) =>
          /\ DOMAIN computedStrain = {}
          /\ DOMAIN computedRecovery = {}
          /\ DOMAIN computedSleepScore = {}
          /\ computedVO2Max = Null
    /\ (phase = "rerun" /\ heartRateAuto = <<>> /\ sleep = <<>>) =>
          /\ DOMAIN rerun[1].computedStrain = {}
          /\ DOMAIN rerun[1].computedRecovery = {}
          /\ DOMAIN rerun[1].computedSleepScore = {}
          /\ rerun[1].computedVO2Max = Null

\* the load ran, and ran again, with no record of either kind
C13_Witness ==
    /\ phase = "rerun"
    /\ heartRateAuto = <<>> /\ sleep = <<>>
    /\ rerun # Null
    /\ computedVO2Max = Null

\* C14: computeDailyRecovery returns a score for missing inputs, using the
\* neutral defaults: RHR component 50 for restingHR null, sleep component 50
\* for a null sleep record, strain component 75 for a null prior strain;
\* with all three missing the score is 55 and the level yellow.
C14_NeutralDefaults ==
    /\ call.fn = "computeDailyRecovery" =>
          /\ call.res.score \in Int
          /\ call.args.sleepNight = Null => call.res.sleepComponent = R(50)
          /\ call.args.priorStrain = Null => call.res.strainComponent = R(75)
          /\ call.args.rhrBpm = Null =>
                call.res.score =
                    Clamp100(MathRound(RAdd(R(20),
                        RAdd(RMul(<<4, 10>>, call.res.sleepComponent),
                             RMul(<<2, 10>>, call.res.strainComponent)))))
          /\ (/\ call.args.rhrBpm = Null /\ call.args.sleepNight = Null
              /\ call.args.priorStrain = Null) =>
                call.res.score = 55 /\ call.res.level = "yellow"
    /\ Loaded =>
          \A d \in DOMAIN computedRecovery :
              /\ d \notin SleepDates => computedRecovery[d].sleepComponent = R(50)
              /\ (~HasNightlyRHR(d) /\ d \notin SleepDates /\ EarlierDates(d) = {}) =>
                    computedRecovery[d].score = 55

\* a direct call with all three inputs missing
C14_Witness ==
    /\ call.fn = "computeDailyRecovery"
    /\ call.args.rhrBpm = Null
    /\ call.args.sleepNight = Null
    /\ call.args.priorStrain = Null
    /\ call.res.score = 55
    /\ call.res.level = "yellow"

\* the strain step of the claim, on tenths of a strain unit
StrainStepTable(tenths) ==
    IF tenths < 70 THEN 0 ELSE IF tenths < 140 THEN 15 ELSE IF tenths < 180 THEN 30 ELSE 45

\* C15: for every strain and every debt (negative debt included)
\* computeSleepNeed returns baseMin = 480, strainAdjustMin 0, 15, 30 or 45 by
\* strain < 7, < 14, < 18, otherwise, debtAdjustMin = clamp(debt * 0.25, 0, 30)
\* and recommendedMin = baseMin + strainAdjustMin + debtAdjustMin, which lies
\* between 480 and 555.
C15_SleepNeedFormula ==
    call.fn = "computeSleepNeed" =>
        LET strain == call.args.todayStrain
            debt == call.args.sleepDebtMin
            quarter == <<debt[1], 4 * debt[2]>>
            res == call.res
        IN  /\ res.baseMin = 480
            /\ res.strainAdjustMin = StrainStepTable(RFloor(RMul(strain, R(10))))
            /\ res.debtAdjustMin =
                  IF quarter[1] <= 0 THEN R(0)
                  ELSE IF quarter[1] >= 30 * quarter[2] THEN R(30)
                  ELSE Rat(quarter[1], quarter[2])
            /\ res.recommendedMin =
                  RAdd(R(res.baseMin + res.strainAdjustMin), res.debtAdjustMin)
            /\ RLe(R(480), res.recommendedMin) /\ RLe(res.recommendedMin, R(555))

\* negative debt at a strain step: nothing is taken off the base need
C15_Witness ==
    /\ call.fn = "computeSleepNeed"
    /\ call.args.sleepDebtMin[1] < 0
    /\ call.args.todayStrain = R(14)
    /\ call.res.debtAdjustMin = R(0)
    /\ call.res.recommendedMin = R(510)

RECURSIVE TotalLength(_, _)
TotalLength(map, S) ==
    IF S = {} THEN 0
    ELSE LET d == CHOOSE x \in S : TRUE
         IN  Len(map[d]) + TotalLength(map, S \ {d})

Greatest(S) == CHOOSE x \in S : \A y \in S : x >= y

RECURSIVE SumOfRates(_)
SumOfRates(records) ==
    IF records = <<>> THEN 0 ELSE Head(records).heartRate + SumOfRates(Tail(records))

\* the double nearest to the arithmetic mean of a date's heart rates
NearestToMean(d) == DblDiv(DblOfInt(SumOfRates(RecordsOf(d))), Len(RecordsOf(d)))

\* |a - b| in units of 2^-60 for two doubles in limbs, 2^30 when larger
RECURSIVE DiffFrom(_, _, _, _)
DiffFrom(a, b, i, d) ==
    IF i = 0 THEN Abs(d)
    ELSE IF Abs(d) >= LimbBase THEN LimbBase * LimbBase
    ELSE DiffFrom(a, b, i - 1, d * LimbBase + (a[i] - b[i]))

AbsDiff(a, b) == DiffFrom(a, b, Len(a), 0)

\* count, min, max and resting of every summary, against the raw records
SummaryCountsAndExtremes ==
    /\ DOMAIN dailyHRSummary = HRDates
    /\ DOMAIN dailyHRSummary = DOMAIN heartRateByDay
    /\ \A d \in DOMAIN dailyHRSummary :
          /\ dailyHRSummary[d].count = Len(RecordsOf(d))
          /\ dailyHRSummary[d].min = Least(DayRates(d))
          /\ dailyHRSummary[d].max = Greatest(DayRates(d))
          /\ dailyHRSummary[d].min <= dailyHRSummary[d].resting
          /\ dailyHRSummary[d].resting <= dailyHRSummary[d].max

\* C18 as stated: one summary per date with records; count, min and max are
\* those of the date's records, min <= resting <= max, and avg equals the
\* arithmetic mean of the date's heart rates (as a double: the double
\* nearest to the mean, which is what re-summing and dividing once gives).
C18_SummaryAvgEqualsMean ==
    Loaded =>
        /\ SummaryCountsAndExtremes
        /\ \A d \in DOMAIN dailyHRSummary : dailyHRSummary[d].avg = NearestToMean(d)

\* C18 amended: as above, but avg equals the mean only up to the rounding of
\* the incremental update: |avg - mean| <= (count + 1) * max * 2^-52, that
\* is |avg * count - sum| * 2^60 <= count * (count + 1) * max * 2^8.
C18_SummaryAvgNearMean ==
    Loaded =>
        /\ SummaryCountsAndExtremes
        /\ \A d \in DOMAIN dailyHRSummary :
              LET summary == dailyHRSummary[d]
              IN  AbsDiff(BigMulSmall(summary.avg, summary.count),
                          DblOfInt(SumOfRates(RecordsOf(d))))
                      <= summary.count * (summary.count + 1) * summary.max * 256

\* a day of eight readings whose running average is not the double nearest
\* to their mean, and whose night minimum lies between min and max
C18_Witness ==
    /\ Loaded
    /\ \E d \in DOMAIN dailyHRSummary :
          /\ dailyHRSummary[d].count = 8
          /\ dailyHRSummary[d].avg # NearestToMean(d)
          /\ dailyHRSummary[d].min < dailyHRSummary[d].resting
          /\ dailyHRSummary[d].resting < dailyHRSummary[d].max

\* C19 as stated: in every ComputedRecoveryScore sleepComponent and
\* strainComponent lie in [0,100], whatever the stage minutes of the sleep
\* record and whatever the prior strain.
C19_ComponentsInRange ==
    /\ call.fn = "computeDailyRecovery" =>
          In0To100(call.res.sleepComponent) /\ In0To100(call.res.strainComponent)
    /\ \A d \in DOMAIN computedRecovery :
          /\ In0To100(computedRecovery[d].sleepComponent)
          /\ In0To100(computedRecovery[d].strainComponent)

\* the earlier dates that have a nightly resting HR, the 14 most recent
RecentAvailable(d) ==
    { e \in EarlierDates(d) :
        /\ HasNightlyRHR(e)
        /\ Cardinality({ f \in EarlierDates(d) : HasNightlyRHR(f) /\ f > e }) < 14 }

\* the dates of the 14-date window that have a nightly resting HR
WindowAvailable(d) == { e \in WindowDates(d) : HasNightlyRHR(e) }

\* C20 as stated: the baseline of a date is the median of the up to 14 most
\* recent earlier nightly resting-HR values, counting only the dates that
\* have one, and it is 65 only when no earlier date has one.
C20_BaselineOfRecentAvailable ==
    Loaded =>
        \A d \in DOMAIN computedRecovery :
            /\ RecentAvailable(d) # {} =>
                  computedRecovery[d].rhrBaseline = median(NightlyValues(RecentAvailable(d)))
            /\ RecentAvailable(d) = {} => computedRecovery[d].rhrBaseline = R(65)

\* C20 amended: the baseline of a date is the median of the nightly
\* resting-HR values that exist among the (up to) 14 dates with heart-rate
\* records right before it; it is 65 when none of these dates has one, even
\* if an older date has.  With at most 14 earlier dates this is the median
\* of all earlier nightly values.
C20_BaselineOfWindowAvailable ==
    Loaded =>
        \A d \in DOMAIN computedRecovery :
            /\ WindowAvailable(d) # {} =>
                  computedRecovery[d].rhrBaseline = median(NightlyValues(WindowAvailable(d)))
            /\ WindowAvailable(d) = {} => computedRecovery[d].rhrBaseline = R(65)
            /\ (Cardinality(EarlierDates(d)) <= 14 /\ RecentAvailable(d) # {}) =>
                  computedRecovery[d].rhrBaseline = median(NightlyValues(RecentAvailable(d)))

\* one date whose window holds a date without night readings, so that an
\* older value stays out, and reaches a baseline that is not 65
C20_Witness ==
    /\ Loaded
    /\ \E d \in DOMAIN computedRecovery :
          /\ Cardinality(EarlierDates(d)) > 14
          /\ WindowAvailable(d) # {}
          /\ WindowAvailable(d) # WindowDates(d)
          /\ WindowAvailable(d) # RecentAvailable(d)
          /\ computedRecovery[d].rhrBaseline # R(65)
          /\ computedRecovery[d].rhrBaseline # median(NightlyValues(RecentAvailable(d)))

\* C21 as stated: the strain component of a date comes from the strain of
\* the calendar day right before it, and is the default 75 whenever that
\* day has no computed strain, also for a date that is not the earliest.
C21_StrainOfPreviousCalendarDay ==
    Loaded =>
        \A d \in DOMAIN computedRecovery :
            IF (d - 1) \in DOMAIN computedStrain
            THEN computedRecovery[d].strainComponent =
                     StrainComponentOf(computedStrain[d - 1].strain)
            ELSE computedRecovery[d].strainComponent = R(75)

\* the records whose heartRate / maxHR lies in [lo, hi), as exact fractions
\* lo = loN / 20 and hi = hiN / 20
RecordsInBand(records, maxHR, loN, hiN) ==
    { i \in DOMAIN records :
        /\ 20 * records[i].heartRate >= loN * maxHR
        /\ 20 * records[i].heartRate < hiN * maxHR }

\* C23: computeHRZones puts a record in peak when heartRate / maxHR >= 0.85,
\* cardio in [0.70, 0.85), fatBurn in [0.50, 0.70), rest below 0.50 (a ratio
\* on a boundary goes to the higher zone); rawTRIMP = fatBurn * 1 + cardio * 2
\* + peak * 3; no records give rawTRIMP 0, strain 0, level rest and every
\* zone percentage 0.
C23_ZoneBoundariesAndEmptyDay ==
    /\ call.fn = "computeHRZones" =>
          LET records == call.args.records
              maxHR == call.args.maxHR
              band(loN, hiN) == Cardinality(RecordsInBand(records, maxHR, loN, hiN))
          IN  /\ call.res.peak.minutes = band(17, 20 * 1000)
              /\ call.res.cardio.minutes = band(14, 17)
              /\ call.res.fatBurn.minutes = band(10, 14)
              /\ call.res.rest.minutes = band(0, 10)
              /\ records = <<>> =>
                    \A zone \in {"rest", "fatBurn", "cardio", "peak"} :
                        call.res[zone].percent = R(0)
    /\ call.fn = "computeDailyStrain" =>
          LET records == call.args.records
              maxHR == call.args.maxHR
              band(loN, hiN) == Cardinality(RecordsInBand(records, maxHR, loN, hiN))
          IN  /\ call.res.rawTRIMP =
                    band(10, 14) * 1 + band(14, 17) * 2 + band(17, 20 * 1000) * 3
              /\ records = <<>> =>
                    /\ call.res.rawTRIMP = 0
                    /\ call.res.strain = R(0)
                    /\ call.res.level = "rest"

\* a call with one record exactly on the 85 % boundary and one exactly on
\* the 50 % boundary, counted as peak and as fatBurn
C23_Witness ==
    /\ call.fn = "computeHRZones"
    /\ call.args.maxHR = 100
    /\ call.args.records = <<HR(1, <<1, 2, 0, 0>>, 85), HR(1, <<1, 2, 0, 0>>, 50)>>
    /\ call.res.peak.minutes = 1
    /\ call.res.fatBurn.minutes = 1

\* the arrays that hold the elements of s in another order
PermutationsOf(s) ==
    { [i \in DOMAIN s |-> s[p[i]]] : p \in Permutations(DOMAIN s) }

\* the positions of the samples timed 02:00 <= time < 05:00, by hour and minute
WindowPositions(records) ==
    { i \in DOMAIN records :
        LET t == records[i].time
            minutes == (t[1] * 10 + t[2]) * 60 + t[3] * 10 + t[4]
        IN  2 * 60 <= minutes /\ minutes < 5 * 60 }

\* v is the value at rank k (counted from 1) of the heart rates at positions W
IsRanked(records, W, v, k) ==
    /\ \E i \in W : records[i].heartRate = v
    /\ Cardinality({ i \in W : records[i].heartRate < v }) < k
    /\ Cardinality({ i \in W : records[i].heartRate <= v }) >= k

\* C24: computeNightlyRestingHR returns null exactly when no record has
\* '02:00' <= time < '05:00' (02:00 counts, 05:00 does not); otherwise the
\* median of the heart rates in the window (the mean of the two middle
\* values for an even count), whatever the order of the records.
C24_NightlyRestingHRIsWindowMedian ==
    call.fn = "computeNightlyRestingHR" =>
        LET records == call.args.hrRecords
            W == WindowPositions(records)
            n == Cardinality(W)
        IN  /\ (call.res = Null) <=> (W = {})
            /\ W # {} =>
                  \E lo, hi \in { records[i].heartRate : i \in W } :
                      /\ IsRanked(records, W, lo, (n + 1) \div 2)
                      /\ IsRanked(records, W, hi, (n + 2) \div 2)
                      /\ call.res = Rat(lo + hi, 2)
            /\ \A other \in PermutationsOf(records) :
                  computeNightlyRestingHR(other) = call.res

\* an unsorted call with two samples in the window (one at 02:00 sharp), one
\* at 05:00 sharp: the result is the mean 60 of the two window samples
C24_Witness ==
    /\ call.fn = "computeNightlyRestingHR"
    /\ call.args.hrRecords =
          <<HR(1, <<0, 5, 0, 0>>, 90), HR(1, <<0, 4, 5, 9>>, 70),
            HR(1, <<0, 2, 0, 0>>, 50)>>
    /\ call.res = R(60)

\* the instants of the samples of a Health Connect heart-rate array, in the
\* order in which the loader emits them
RECURSIVE SampleInstants(_)
SampleInstants(hrRecords) ==
    IF hrRecords = <<>> THEN <<>>
    ELSE LET rec == Head(hrRecords)
             own == IF rec.samples = Null THEN <<>>
                    ELSE [i \in DOMAIN rec.samples[1] |->
                            IF rec.samples[1][i].time = Null THEN rec.startTime
                            ELSE rec.samples[1][i].time[1]]
         IN  own \o SampleInstants(Tail(hrRecords))

\* the local wall-clock date (day number) and minute of the day of an instant
LocalDate(t, tz) == (t + tz) \div MinutesPerDay + 1
LocalMinute(t, tz) == (t + tz) % MinutesPerDay

MinuteOfTime(time) == (time[1] * 10 + time[2]) * 60 + time[3] * 10 + time[4]

\* C26 as stated: every heart-rate sample the Health Connect loader hands to
\* the pipeline has its date and its time taken from the same local
\* wall-clock instant, for any timestamp and any timezone offset.
C26_DateAndTimeOfOneLocalInstant ==
    call.fn = "loadFromHealthConnect" =>
        LET instants == SampleInstants(call.args.hrRecords)
            tz == call.args.tz
        IN  /\ Len(call.res) = Len(instants)
            /\ \A i \in DOMAIN call.res :
                  /\ call.res[i].date = LocalDate(instants[i], tz)
                  /\ MinuteOfTime(call.res[i].time) = LocalMinute(instants[i], tz)

\* a bedtime in minutes on the evening scale: a start at or before noon
\* belongs to the night that began the evening before
BedtimeMinutes(start) ==
    LET minutes == start.h * 60 + start.m
    IN  IF minutes <= 12 * 60 THEN minutes + 24 * 60 ELSE minutes

\* v is the value at rank k (counted from 1) of the bedtimes of the nights
BedtimeRanked(nights, v, k) ==
    /\ \E i \in DOMAIN nights : BedtimeMinutes(nights[i].start) = v
    /\ Cardinality({ i \in DOMAIN nights : BedtimeMinutes(nights[i].start) < v }) < k
    /\ Cardinality({ i \in DOMAIN nights : BedtimeMinutes(nights[i].start) <= v }) >= k

\* C25: with three or more previous nights, the consistency sub-score is
\* max(0, 100 - 25 * |bedtimeHour - medianBedtimeHour|), where bedtimes
\* after midnight count 24 hours later: a 00:30 bedtime against a 23:30
\* median (or the reverse) is one hour off and scores 75, not 23 hours off.
C25_ConsistencyAcrossMidnight ==
    (call.fn = "computeEnhancedSleepScore" /\ Len(call.args.prevNights) >= 3) =>
        LET nights == call.args.prevNights
            n == Len(nights)
            current == BedtimeMinutes(call.args.night.start)
        IN  \E lo, hi \in { BedtimeMinutes(nights[i].start) : i \in DOMAIN nights } :
                /\ BedtimeRanked(nights, lo, (n + 1) \div 2)
                /\ BedtimeRanked(nights, hi, (n + 2) \div 2)
                /\ LET twiceOff == IF 2 * current >= lo + hi
                                   THEN 2 * current - (lo + hi)
                                   ELSE (lo + hi) - 2 * current
                       raw == Rat(100 * 120 - 25 * twiceOff, 120)
                   IN  /\ call.res.consistency = IF RLt(raw, R(0)) THEN R(0) ELSE raw
                       /\ twiceOff = 120 => call.res.consistency = R(75)

\* a night that starts at 00:30 after three nights whose median bedtime is
\* 23:30 scores 75
C25_Witness ==
    /\ call.fn = "computeEnhancedSleepScore"
    /\ call.args.night.start = [h |-> 0, m |-> 30]
    /\ call.args.prevNights =
          <<Night(1, 96, 264, 120, 0, 23, 30), Night(2, 30, 200, 40, 30, 0, 30),
            Night(3, 150, 330, 150, 20, 21, 0)>>
    /\ call.res.consistency = R(75)

\* the positions of the sleep records of a date in the array as delivered
PositionsOfDate(d) == { i \in DOMAIN sleep : sleep[i].date = d }

\* the record of a date that comes last in the array as delivered
LastRecordOfDate(d) ==
    sleep[CHOOSE i \in PositionsOfDate(d) : \A j \in PositionsOfDate(d) : j <= i]

\* the sleep component of the recovery score of a night: its minutes asleep
\* against the 480-minute target, in percent, at most 100
SleepComponentOf(night) ==
    LET asleep == night.deepSleepTime + night.shallowSleepTime + night.REMTime
    IN  IF asleep >= SleepTarget THEN R(100) ELSE Rat(asleep * 100, SleepTarget)

\* C29: when several sleep records carry the same date, computeAllScores
\* uses one and the same of them for both outputs: the date's
\* computedSleepScore entry and the sleep component of its recovery entry
\* are both computed from the record that comes last in the input array
\* among those of the date.
C29_DuplicateDateUsesLastRecord ==
    Loaded =>
        \A d \in SleepDates :
            LET last == LastRecordOfDate(d)
            IN  /\ d \in DOMAIN computedSleepScore
                /\ computedSleepScore[d].sufficiency = scoreSufficiency(last)
                /\ computedSleepScore[d].efficiency = scoreEfficiency(last)
                /\ computedSleepScore[d].stageQuality = scoreStageQuality(last)
                /\ d \in DOMAIN computedRecovery =>
                      computedRecovery[d].sleepComponent = SleepComponentOf(last)

\* two records of day 2, the empty one first: both outputs of day 2 come
\* from the second record (270 minutes asleep)
C29_Witness ==
    /\ Loaded
    /\ sleep = <<Night(2, 0, 0, 0, 0, 22, 0), Night(2, 30, 200, 40, 30, 0, 30)>>
    /\ 2 \in DOMAIN computedRecovery
    /\ computedRecovery[2].sleepComponent = Rat(270 * 100, 480)
    /\ computedSleepScore[2].sufficiency = Rat(270 * 100, 480)

\* no two sleep records carry the same date
DistinctSleepDates ==
    \A i, j \in DOMAIN sleep : sleep[i].date = sleep[j].date => i = j

NightOfDate(d) == sleep[CHOOSE i \in DOMAIN sleep : sleep[i].date = d]

EarlierNights(d) == { e \in SleepDates : e < d }

\* the up to 14 dates of sleep records right before d
NightWindowDates(d) ==
    { e \in EarlierNights(d) : Cardinality({ f \in EarlierNights(d) : f > e }) < 14 }

\* the sleep records of a set of dates, oldest first
NightsOf(S) ==
    LET dates == SortedKeys(S)
    IN  [i \in DOMAIN dates |-> NightOfDate(dates[i])]

\* C22: the sleep score of the i-th night in ascending date order is computed
\* from that night and exactly the nights at the sorted positions
\* max(0, i - 14) .. i - 1, oldest first; later nights and nights more than
\* 14 positions back never influence it; the three earliest nights always
\* get consistency = 75.  (Stated for arrays with one record per date, in
\* any order.)
C22_SleepScoreFromFourteenNightsBefore ==
    (phase = "loaded" /\ DistinctSleepDates) =>
        /\ DOMAIN computedSleepScore = SleepDates
        /\ \A d \in SleepDates :
              /\ computedSleepScore[d] =
                    computeEnhancedSleepScore(NightOfDate(d), NightsOf(NightWindowDates(d)))
              /\ Cardinality(EarlierNights(d)) < 3 =>
                    computedSleepScore[d].consistency = R(75)

\* an unsorted array of more than 15 nights: the score of a night with more
\* than 14 nights before it would be another one if the oldest counted too
C22_Witness ==
    /\ phase = "loaded" /\ DistinctSleepDates
    /\ Len(sleep) > 15 /\ sleep[1].date > sleep[2].date
    /\ \E d \in SleepDates :
          /\ Cardinality(EarlierNights(d)) > 14
          /\ computedSleepScore[d] #
                computeEnhancedSleepScore(NightOfDate(d), NightsOf(EarlierNights(d)))

\* the data have been loaded twice, the second time in another order
Reordered == phase = "loaded" /\ earlier # Null /\ earlier[1].kind = "reordered"

\* both loads give the same strain, recovery and sleep-score maps and the
\* same VO2 Max
SameScoresAsEarlier ==
    /\ computedStrain = earlier[1].computedStrain
    /\ computedRecovery = earlier[1].computedRecovery
    /\ computedSleepScore = earlier[1].computedSleepScore
    /\ computedVO2Max = earlier[1].computedVO2Max

\* C27 as stated: the result of the daily indexer and computeAllScores does
\* not depend on the order of the records: for any reordering of the
\* heart-rate array and of the sleep array (sleep dates distinct) the summary
\* map, the strain, recovery and sleep-score maps and the VO2 Max are equal
\* as date-keyed values.
C27_OrderIndependent ==
    (Reordered /\ DistinctSleepDates) =>
        /\ dailyHRSummary = earlier[1].dailyHRSummary
        /\ SameScoresAsEarlier

\* C27 amended: as above, except that the avg of a summary is equal only up
\* to the rounding of the running average, which is accumulated in array
\* order: |avg - avg'| <= 2 * (count + 1) * max * 2^-52.
C27_OrderIndependentUpToAvgRounding ==
    (Reordered /\ DistinctSleepDates) =>
        /\ SameScoresAsEarlier
        /\ DOMAIN dailyHRSummary = DOMAIN earlier[1].dailyHRSummary
        /\ \A d \in DOMAIN dailyHRSummary :
              LET now == dailyHRSummary[d]
                  before == earlier[1].dailyHRSummary[d]
              IN  /\ [now EXCEPT !.avg = before.avg] = before
                  /\ AbsDiff(now.avg, before.avg) <= 2 * (now.count + 1) * now.max * 256

\* the day of eight readings loaded in two orders that give two averages,
\* together with nights loaded in two orders
C27_Witness ==
    /\ Reordered /\ DistinctSleepDates
    /\ heartRateAuto # earlier[1].heartRateAuto
    /\ sleep # earlier[1].sleep
    /\ \E d \in DOMAIN dailyHRSummary :
          /\ dailyHRSummary[d].count = 8
          /\ dailyHRSummary[d].avg # earlier[1].dailyHRSummary[d].avg

\* the data have been loaded twice, the second time without the records
\* after earlier[1].lastDay
Shortened == phase = "loaded" /\ earlier # Null /\ earlier[1].kind = "shortened"

\* C28: recovery is causal.  Two inputs that agree on all heart-rate and
\* sleep records dated up to d give the same computedRecovery entry for d:
\* the entry of every date up to the last day of the shorter input is the
\* one the full input gives.
C28_RecoveryIsCausal ==
    Shortened =>
        \A d \in DOMAIN earlier[1].computedRecovery :
            d <= earlier[1].lastDay =>
                /\ d \in DOMAIN computedRecovery
                /\ computedRecovery[d] = earlier[1].computedRecovery[d]

\* heart-rate and sleep records after the last day were cut, and the entry
\* of the last day has a baseline from earlier nights, a sleep record and a
\* prior strain
C28_Witness ==
    /\ Shortened
    /\ Len(heartRateAuto) < Len(earlier[1].heartRateAuto)
    /\ Len(sleep) < Len(earlier[1].sleep)
    /\ earlier[1].lastDay \in DOMAIN computedRecovery
    /\ LET entry == computedRecovery[earlier[1].lastDay]
       IN  /\ entry.rhrBaseline # R(DefaultBaseline)
           /\ entry.rhrBpm # R(0)
           /\ entry.sleepComponent # R(50)
           /\ entry.strainComponent # R(75)
           /\ entry = earlier[1].computedRecovery[earlier[1].lastDay]

\* C30 as stated: in the DataProvider, under every interleaving of the
\* initial load, requestPermissions, the AppState foreground re-check and
\* refreshData, whenever data is non-null dataSource names the loader that
\* produced the data held.
C30_DataSourceNamesLoader ==
    data # Null => dataSource = data[1].loader

====
